---------------------------- MODULE Spec2Model ----------------------------
(***************************************************************************)
(* A model of one pyredis server process: the in-memory store with TTL and *)
(* streams (database.py), the commands (commands.py), the connection       *)
(* threads (main.py) and the replication handler (replicas.py).            *)
(*                                                                         *)
(* Text that the code splits, converts with int()/str() or compares is a   *)
(* sequence of one-character strings (<<"1","0">> is "10"); text that is   *)
(* only copied is a TLA+ string.  A datetime is the number of milliseconds *)
(* the wall clock shows.                                                   *)
(***************************************************************************)
EXTENDS Integers, Sequences, FiniteSets, TLC

VARIABLES
    store,               \* Database.store: key -> entry
    now,                 \* the wall clock (datetime.now()), in ms
    last,                \* the command last executed on the store and its reply
    slaves,              \* ReplicaHandler.slaves: list of sockets
    connected_slaves,    \* ReplicaHandler.connected_slaves
    ack_count,           \* ReplicaHandler.ack_count
    master_repl_offset,  \* ReplicaHandler.master_repl_offset
    sock_out,            \* socket -> the frames written to it with sendall
    conn_pc,             \* connection thread -> its place in handle_conn
    conn_cmd,            \* connection thread -> the command it is executing
    conn_idx,            \* connection thread -> its index in propogate's loop
    conn_reply,          \* connection thread -> what execute returned, still to send
    rpc,                 \* the replica task's place in connect_to_master
    handshake_step,      \* connect_to_master's local handshake_step
    cmds,                \* connect_to_master's local cmds still to process
    master_rx,           \* the frames the replica task has consumed, in order
    sets_seen,           \* the SET frames read from clients, each with the slaves then
    conn_end,            \* connection thread -> WaitCommand.execute's local end
    acks_by,             \* connection -> the REPLCONF ACKs executed for it
    wait_log,            \* the WAITs executed, each with what it saw
    lock,                \* the thread that holds Database.lock, "" when free
    original_lens,       \* connection thread -> Database.xread's local original_lens
    xcall,               \* connection thread -> the XREAD it executes and what it saw
    conn_n,              \* connection thread -> the number of frames it has read
    codec_v,             \* the RESP values or commands handed to encode
    codec_data,          \* the bytes handed to dispatch or parse_cmd
    codec_out,           \* what dispatch or parse_cmd made of them
    rdb_input,           \* the bytes RdbFile was constructed with
    rdb_data,            \* RdbFile.data, the bytes as numbers 0..255
    rdb_idx,             \* RdbFile.idx
    rdb_key_values,      \* RdbFile.key_values
    rdb_buffer,          \* RdbFile.buffer
    rdb_pc,              \* the place of RdbFile.__init__: "new", "parsing", "done", "raised"
    rdb_calls            \* the calls of read_length_encoded_integer made so far

storeVars == <<store, now, last>>
replVars == <<slaves, connected_slaves, ack_count, master_repl_offset>>
waitVars == <<conn_end, acks_by, wait_log>>
clientVars == <<lock, original_lens, xcall, conn_n>>
rdbVars == <<rdb_input, rdb_data, rdb_idx, rdb_key_values, rdb_buffer, rdb_pc, rdb_calls>>
codecVars == <<codec_v, codec_data, codec_out, rdbVars>>
threadVars == <<conn_pc, conn_cmd, conn_idx, conn_reply, sets_seen, waitVars,
                clientVars, codecVars>>
connVars == <<sock_out, threadVars>>
taskVars == <<rpc, handshake_step, cmds, master_rx>>
vars == <<store, now, last, slaves, connected_slaves, ack_count,
          master_repl_offset, sock_out, conn_pc, conn_cmd, conn_idx,
          conn_reply, rpc, handshake_step, cmds, master_rx, sets_seen,
          conn_end, acks_by, wait_log, lock, original_lens, xcall, conn_n,
          codec_v, codec_data, codec_out, rdb_input, rdb_data, rdb_idx,
          rdb_key_values,
          rdb_buffer, rdb_pc, rdb_calls>>

---------------------------------------------------------------------------
(* Bounds of the model *)

MaxNow == 3
MaxPx == 1
MaxStreamLen == 3

---------------------------------------------------------------------------
(* Text: int(), str(), split("-") *)

Digits == <<"0", "1", "2", "3", "4", "5", "6", "7", "8", "9">>

DigitVal(ch) == (CHOOSE i \in 1..10 : Digits[i] = ch) - 1

RECURSIVE StrToInt(_)
StrToInt(s) ==
    IF Len(s) = 0 THEN 0
    ELSE 10 * StrToInt(SubSeq(s, 1, Len(s) - 1)) + DigitVal(s[Len(s)])

RECURSIVE IntToStr(_)
IntToStr(n) ==
    IF n < 10 THEN <<Digits[n + 1]>>
    ELSE IntToStr(n \div 10) \o <<Digits[(n % 10) + 1]>>

RECURSIVE Text(_)
Text(s) == IF Len(s) = 0 THEN "" ELSE s[1] \o Text(Tail(s))

Split(s) ==
    LET i == CHOOSE j \in 1..Len(s) : s[j] = "-"
    IN  <<SubSeq(s, 1, i - 1), SubSeq(s, i + 1, Len(s))>>

Star == <<"*">>

---------------------------------------------------------------------------
(* constants.py *)

OK_SIMPLE_RESP_STRING == [t |-> "str", s |-> "OK"]
NULL_BULK_RESP_STRING == [t |-> "null", s |-> ""]
STREAM_ID_NOT_GREATER_ERROR == "ERR The ID specified in XADD is equal or smaller than the target stream top item"
STREAM_ID_TOO_SMALL_ERROR == "ERR The ID specified in XADD must be greater than 0-0"

RespSimpleString(s) == [t |-> "str", s |-> s]
RespSimpleError(s) == [t |-> "err", s |-> s]
RespBulkString(s) == IF s = "" THEN NULL_BULK_RESP_STRING ELSE [t |-> "bulk", s |-> s]
Crashed == [t |-> "exception", s |-> ""]

---------------------------------------------------------------------------
(* database.py: the store *)

Keys == {"k"}
Values == {"v", "w"}

None == [some |-> FALSE, at |-> 0]
At(t) == [some |-> TRUE, at |-> t]

Absent == [kind |-> "absent", value |-> "", expiry |-> None, items |-> <<>>]
StrEntry(v, e) == [kind |-> "str", value |-> v, expiry |-> e, items |-> <<>>]
ListEntry(xs) == [kind |-> "list", value |-> "", expiry |-> None, items |-> xs]

StreamId(ms, seq) == [milliseconds_time |-> ms, seq_no |-> seq]
StreamIdOf(id_str) == StreamId(Split(id_str)[1], Split(id_str)[2])
StreamIdStr(sid) == sid.milliseconds_time \o <<"-">> \o sid.seq_no

Contains(st, key) == st[key].kind # "absent"

SetItem(st, key, value) == [st EXCEPT ![key] = value]

DelItem(st, key) == [st EXCEPT ![key] = Absent]

\* expire_one without its del: the key is reported expired and stays
expire_one_keeps(st, key, t) ==
    LET value == st[key] IN
    IF value.kind = "list" THEN <<FALSE, st>>
    ELSE IF value.expiry.some /\ value.expiry.at < t
         THEN <<TRUE, st>>
         ELSE <<FALSE, st>>

\* expire_one: <<whether the key was expired, the store afterwards>>
expire_one(st, key, t) ==
    LET value == st[key] IN
    IF value.kind = "list" THEN <<FALSE, st>>
    ELSE IF value.expiry.some /\ value.expiry.at < t
         THEN <<TRUE, DelItem(st, key)>>
         ELSE <<FALSE, st>>

\* __getitem__: <<the value (an entry, or Absent for None), the store afterwards>>
GetItem(st, key, t) ==
    IF ~Contains(st, key) THEN <<Absent, st>>
    ELSE LET value == st[key] IN
         IF value.kind = "list" THEN <<value, st>>
         ELSE IF value.expiry.some /\ expire_one(st, key, t)[1]
              THEN <<Absent, expire_one(st, key, t)[2]>>
              ELSE <<value, st>>

get_type(st, key) ==
    IF ~Contains(st, key) THEN "none"
    ELSE IF st[key].kind = "list" THEN "stream" ELSE "string"

\* validate_stream_id without its check that the key holds a stream
validate_stream_id_any_kind(st, key, id) ==
    IF ~Contains(st, key) \/ st[key].kind # "list" THEN ""
    ELSE IF id = Star THEN ""
    ELSE IF Split(id)[1] = <<"0">> /\ Split(id)[2] = <<"0">>
         THEN STREAM_ID_TOO_SMALL_ERROR
         ELSE ""

\* a validation that lets every id through
validate_stream_id_unchecked(st, key, id) == ""

\* validate_stream_id: "" for None, else the error text
validate_stream_id(st, key, id) ==
    IF ~Contains(st, key) THEN ""
    ELSE LET cur_value == st[key] IN
         IF cur_value.kind # "list" THEN STREAM_ID_NOT_GREATER_ERROR
         ELSE IF id = Star THEN ""
         ELSE LET milliseconds_time == Split(id)[1]
                  seq_no == Split(id)[2]
                  seq_no_is_star == seq_no = Star
              IN  IF milliseconds_time = <<"0">> /\ seq_no = <<"0">>
                  THEN STREAM_ID_TOO_SMALL_ERROR
                  ELSE IF cur_value.items = <<>> THEN ""
                  ELSE LET lastid == StreamIdStr(cur_value.items[Len(cur_value.items)])
                           last_mst == Split(lastid)[1]
                           last_seq_no == Split(lastid)[2]
                       IN  IF StrToInt(milliseconds_time) < StrToInt(last_mst)
                           THEN STREAM_ID_NOT_GREATER_ERROR
                           ELSE IF seq_no_is_star THEN ""
                           ELSE IF /\ StrToInt(milliseconds_time) = StrToInt(last_mst)
                                   /\ StrToInt(seq_no) <= StrToInt(last_seq_no)
                                THEN STREAM_ID_NOT_GREATER_ERROR
                                ELSE ""

\* StreamId.generate_stream_id; last_id is <<>> for None
generate_stream_id(id, last_id, t) ==
    IF id = Star
    THEN LET milliseconds_time == IntToStr(t) IN
         IF last_id = <<>> THEN StreamId(milliseconds_time, <<"0">>)
         ELSE LET splitted_last == Split(last_id) IN
              IF splitted_last[1] = milliseconds_time
              THEN StreamId(milliseconds_time,
                            IntToStr(StrToInt(splitted_last[2]) + 1))
              ELSE StreamId(milliseconds_time, <<"0">>)
    ELSE LET milliseconds_time == Split(id)[1]
             seq_no == Split(id)[2]
             fresh == IF milliseconds_time = <<"0">> THEN <<"1">> ELSE <<"0">>
         IN  IF last_id = <<>>
             THEN StreamId(milliseconds_time,
                           IF seq_no = Star THEN fresh ELSE seq_no)
             ELSE LET last_milliseconds_time == Split(last_id)[1]
                      last_seq_no == Split(last_id)[2]
                  IN  IF seq_no = Star
                      THEN IF milliseconds_time = last_milliseconds_time
                           THEN StreamId(milliseconds_time,
                                         IntToStr(StrToInt(last_seq_no) + 1))
                           ELSE StreamId(milliseconds_time, fresh)
                      ELSE StreamId(milliseconds_time, seq_no)

RECURSIVE StrLess(_, _)
\* a < b for two texts of digits, as Python compares str
StrLess(a, b) ==
    IF a = <<>> THEN b # <<>>
    ELSE IF b = <<>> THEN FALSE
    ELSE IF a[1] = b[1] THEN StrLess(Tail(a), Tail(b))
    ELSE DigitVal(a[1]) < DigitVal(b[1])

\* StreamId.__lt__
StreamIdLt(a, b) ==
    IF a.milliseconds_time # b.milliseconds_time
    THEN StrLess(a.milliseconds_time, b.milliseconds_time)
    ELSE StrLess(a.seq_no, b.seq_no)

RECURSIVE Bisect(_, _, _, _)
\* the loop of bisect.bisect_right(value, x, key=lambda x: x[0]); lo and hi
\* count from 0
Bisect(value, x, lo, hi) ==
    IF lo >= hi THEN lo
    ELSE LET mid == (lo + hi) \div 2 IN
         IF StreamIdLt(x, value[mid + 1])
         THEN Bisect(value, x, lo, mid)
         ELSE Bisect(value, x, mid + 1, hi)

bisect_right(value, x) == Bisect(value, x, 0, Len(value))

\* str(constants.MAX_STREAM_ID_SEQ_NO), the text of 2**32 - 1
MAX_STREAM_ID_SEQ_NO == <<"4", "2", "9", "4", "9", "6", "7", "2", "9", "5">>

XOP_ON_NON_STREAM_ERROR == "ERR The key provided does not refer to a stream"

HasDash(txt) == \E i \in 1..Len(txt) : txt[i] = "-"

\* the range of a Python slice value[from:to], from and to counted from 0
Slice(value, from, to) == SubSeq(value, from + 1, to)

\* Database.xrange: <<the kind of reply, the ids of the entries in it>>
xrange(st, key, start, end) ==
    IF ~Contains(st, key) THEN <<"exception", <<>>>>
    ELSE LET value == st[key].items IN
    IF st[key].kind # "list" THEN <<"raw", <<>>>>
    ELSE LET start1 == IF start = <<"-">> THEN <<"0", "-", "1">>
                       ELSE IF ~HasDash(start) THEN start \o <<"-", "0">>
                       ELSE start
             end1 == IF end = <<"+">>
                     THEN IF value # <<>> THEN StreamIdStr(value[Len(value)])
                          ELSE MAX_STREAM_ID_SEQ_NO \o <<"-">> \o MAX_STREAM_ID_SEQ_NO
                     ELSE IF ~HasDash(end) THEN end \o <<"-">> \o MAX_STREAM_ID_SEQ_NO
                     ELSE end
             lo == bisect_right(value, StreamIdOf(start1))
             hi == bisect_right(value, StreamIdOf(end1))
         IN  IF lo >= Len(value) THEN <<"arr", <<>>>>
             ELSE <<"arr", Slice(value, IF lo # 0 THEN lo - 1 ELSE 0, hi)>>

\* the id Database.xread searches from for the i-th pair: "$" is the id at
\* place original_lens[i] - 1 of the stream as it is now; lens is <<>> when
\* original_lens was never assigned (no BLOCK); <<>> when the code raises
XreadFrom(value, id, lens, i) ==
    IF id # <<"$">> THEN id
    ELSE IF lens = <<>> THEN <<>>
    ELSE IF value = <<>> THEN <<"0", "-", "0">>
    ELSE IF lens[i] = 0 THEN StreamIdStr(value[Len(value)])
    ELSE IF lens[i] > Len(value) THEN <<>>
    ELSE StreamIdStr(value[lens[i]])

RECURSIVE XreadLoop(_, _, _, _, _, _)
\* the for loop of Database.xread over the (key, id) pairs, from pair i on
XreadLoop(st, stream_keys, ids, lens, i, res) ==
    IF i > Len(stream_keys) THEN <<"arr", res>>
    ELSE IF ~Contains(st, stream_keys[i]) THEN <<"exception", <<>>>>
    ELSE IF st[stream_keys[i]].kind # "list" THEN <<"raw", <<>>>>
    ELSE LET value == st[stream_keys[i]].items
             id == XreadFrom(value, ids[i], lens, i)
         IN  IF ~HasDash(id) THEN <<"exception", <<>>>>
             ELSE LET lo == bisect_right(value, StreamIdOf(id)) IN
                  IF lo >= Len(value) THEN <<"null", <<>>>>
                  ELSE XreadLoop(st, stream_keys, ids, lens, i + 1,
                                 Append(res, Slice(value, lo, Len(value))))

\* Database.xread with timeout None: <<the kind of reply, for each pair the
\* ids of the entries in it>>
xread(st, stream_keys, ids) == XreadLoop(st, stream_keys, ids, <<>>, 1, <<>>)

\* xadd: <<the id appended (<<>> when it raises), the store afterwards>>
xadd(st, key, id, t) ==
    LET st1 == IF ~Contains(st, key) THEN SetItem(st, key, ListEntry(<<>>)) ELSE st
        cur_value == st1[key]
    IN  IF cur_value.kind # "list" THEN <<(<<>>), st>>
        ELSE LET processed_id ==
                    generate_stream_id(
                        id,
                        IF cur_value.items # <<>>
                        THEN StreamIdStr(cur_value.items[Len(cur_value.items)])
                        ELSE <<>>,
                        t)
             IN  <<StreamIdStr(processed_id),
                   SetItem(st1, key,
                           ListEntry(Append(cur_value.items, processed_id)))>>

---------------------------------------------------------------------------
(* commands.py: execute, as <<reply, store afterwards>> *)

\* SetCommand.execute's write; the expiry was computed by parse_resp_cmd
SetExecute(st, key, value, expiry) ==
    <<OK_SIMPLE_RESP_STRING, SetItem(st, key, StrEntry(value, expiry))>>

\* parse_resp_cmd's expiry of SET k v PX px (px < 0: no PX given)
SetExpiry(px, t) == IF px < 0 THEN None ELSE At(t + px)

GetExecute(st, key, t) ==
    IF Contains(st, key)
    THEN LET got == GetItem(st, key, t) IN
         IF got[1].kind = "str" THEN <<RespBulkString(got[1].value), got[2]>>
         ELSE IF got[1].kind = "list"
              THEN <<[t |-> "bulk", s |-> "repr"], got[2]>>
              ELSE <<NULL_BULK_RESP_STRING, got[2]>>
    ELSE <<NULL_BULK_RESP_STRING, st>>

TypeExecute(st, key) ==
    IF Contains(st, key)
    THEN <<RespSimpleString(get_type(st, key)), st>>
    ELSE <<RespSimpleString("none"), st>>

XaddExecute(st, key, id, t) ==
    LET err == validate_stream_id(st, key, id) IN
    IF err # "" THEN <<RespSimpleError(err), st>>
    ELSE LET r == xadd(st, key, id, t) IN
         IF r[1] = <<>> THEN <<Crashed, st>>
         ELSE <<RespSimpleString(Text(r[1])), r[2]>>

---------------------------------------------------------------------------
(* data_types.py: frames on the wire.  A frame is a RESP value: an array of  *)
(* bulk strings ("arr", its elements in a), a simple string ("str"), the     *)
(* RDB file ("rdb"), an integer, a bulk string or a simple error.            *)

Arr(a) == [t |-> "arr", a |-> a]
Simple(s) == [t |-> "str", a |-> <<s>>]
Reply(r) == [t |-> r.t, a |-> <<r.s>>]

\* len(EMPTY_RDB_FILE): the 88 bytes constants.py decodes from base64
EMPTY_RDB_LEN == 88
RdbFrame == [t |-> "rdb", a |-> <<"EMPTY_RDB_FILE">>]

\* len(str(n))
DecLen(n) == Len(IntToStr(n))

\* len(RespBulkString(s).encode())
BulkLen(s) == IF s = "" THEN 5 ELSE 1 + DecLen(Len(s)) + 2 + Len(s) + 2

RECURSIVE SumBulkLen(_)
SumBulkLen(a) == IF a = <<>> THEN 0 ELSE BulkLen(Head(a)) + SumBulkLen(Tail(a))

\* len(f.encode()) of a frame
EncLen(f) ==
    CASE f.t = "arr" -> 1 + DecLen(Len(f.a)) + 2 + SumBulkLen(f.a)
      [] f.t = "rdb" -> 1 + DecLen(EMPTY_RDB_LEN) + 2 + EMPTY_RDB_LEN
      [] f.t = "bulk" -> BulkLen(f.a[1])
      [] f.t = "null" -> 5
      [] OTHER -> 1 + Len(f.a[1]) + 2

\* commands.craft_command(*args).encode()
craft_command(a) == Arr(a)

SetFrame(key, value, px) ==
    IF px < 0 THEN Arr(<<"SET", key, value>>)
    ELSE Arr(<<"SET", key, value, "PX", Text(IntToStr(px))>>)

\* ReplicaHandler.propogate: raw_cmd is written to every socket of the list
\* a propogate that writes to no slave
propogate_to_none(out, sl, raw_cmd) == out

RECURSIVE propogate(_, _, _)
propogate(out, sl, raw_cmd) ==
    IF sl = <<>> THEN out
    ELSE propogate([out EXCEPT ![Head(sl)] = Append(@, raw_cmd)], Tail(sl), raw_cmd)

---------------------------------------------------------------------------
(* The store's commands, one client at a time *)

Conns == {"c1", "c2"}
MasterConn == "m"
Socks == Conns \cup {MasterConn}

MsTexts == {<<"0">>, <<"1">>, <<"0", "1">>, <<"9">>, <<"1", "0">>}
SeqTexts == {<<"0">>, <<"1">>, Star}
XaddIds == {Star} \cup {ms \o <<"-">> \o sq : ms \in MsTexts, sq \in SeqTexts}

NoCmd == [op |-> "", key |-> "", arg |-> "", at |-> 0, pre |-> Absent,
          reply |-> Crashed, args |-> <<>>, ids |-> <<>>]

Ran(op, key, arg, r) ==
    /\ store' = r[2]
    /\ last' = [op |-> op, key |-> key, arg |-> arg, at |-> now,
                pre |-> store[key], reply |-> r[1], args |-> <<>>, ids |-> <<>>]

\* a command that reads streams: args are the ids it named, r is <<the kind
\* of reply, for each stream read the ids of the entries replied>>
RanRead(op, key, args, r) ==
    /\ last' = [op |-> op, key |-> key, arg |-> "", at |-> now,
                pre |-> store[key],
                reply |-> IF r[1] = "exception" THEN Crashed
                          ELSE IF r[1] = "null" THEN NULL_BULK_RESP_STRING
                          ELSE IF r[1] = "raw"
                               THEN [t |-> "raw", s |-> XOP_ON_NON_STREAM_ERROR]
                               ELSE [t |-> "arr", s |-> ""],
                args |-> args, ids |-> r[2]]
    /\ UNCHANGED store

StoreInit ==
    /\ store = [k \in Keys |-> Absent]
    /\ now \in 1..MaxNow
    /\ last = NoCmd

\* no XREAD executed yet
NoCall == [state |-> "", key |-> "", id |-> "", timeout |-> -1,
           snap |-> Absent, seen |-> Absent,
           reply |-> [t |-> "arr", a |-> <<>>]]

ServerState(task) ==
    /\ slaves = <<>>
    /\ connected_slaves = 0
    /\ ack_count = 0
    /\ master_repl_offset = 0
    /\ sock_out = [s \in Socks |-> <<>>]
    /\ conn_pc = [c \in Conns |-> "recv"]
    /\ conn_cmd = [c \in Conns |-> Arr(<<>>)]
    /\ conn_idx = [c \in Conns |-> 0]
    /\ conn_reply = [c \in Conns |-> <<>>]
    /\ rpc = task
    /\ handshake_step = 0
    /\ cmds = <<>>
    /\ master_rx = <<>>
    /\ sets_seen = <<>>
    /\ conn_end = [c \in Conns |-> 0]
    /\ acks_by = [c \in Conns |-> 0]
    /\ wait_log = <<>>
    /\ lock = ""
    /\ original_lens = [c \in Conns |-> <<>>]
    /\ xcall = [c \in Conns |-> NoCall]
    /\ conn_n = [c \in Conns |-> 0]

\* no RdbFile is being read
NoRdb ==
    /\ rdb_input = <<>>
    /\ rdb_data = <<>>
    /\ rdb_idx = 0
    /\ rdb_key_values = {}
    /\ rdb_buffer = <<>>
    /\ rdb_pc = "off"
    /\ rdb_calls = <<>>

\* the server after construction; the codec has been handed nothing
ServerInit(task) ==
    /\ ServerState(task)
    /\ codec_v = <<>>
    /\ codec_data = <<>>
    /\ codec_out = <<>>
    /\ NoRdb

\* the wall clock shows another time
Tick ==
    /\ \E t \in 1..MaxNow : t # now /\ now' = t
    /\ UNCHANGED <<store, last, replVars, connVars, taskVars>>

\* SET key value [PX px]: parse_resp_cmd, then SetCommand.execute
CmdSet ==
    \E key \in Keys, value \in Values, px \in -1..MaxPx :
        /\ sock_out' = propogate(sock_out, slaves, SetFrame(key, value, px))
        /\ Ran("SET", key, value, SetExecute(store, key, value, SetExpiry(px, now)))
        /\ UNCHANGED <<now, replVars, threadVars, taskVars>>

\* GET key: GetCommand.execute
CmdGet ==
    \E key \in Keys :
        /\ Ran("GET", key, "", GetExecute(store, key, now))
        /\ UNCHANGED <<now, replVars, connVars, taskVars>>

\* TYPE key: TypeCommand.execute
CmdType ==
    \E key \in Keys :
        /\ Ran("TYPE", key, "", TypeExecute(store, key))
        /\ UNCHANGED <<now, replVars, connVars, taskVars>>

\* XADD key id field value: XaddCommand.execute
CmdXadd ==
    \E key \in Keys, id \in XaddIds :
        /\ Len(store[key].items) < MaxStreamLen
        /\ Ran("XADD", key, Text(id), XaddExecute(store, key, id, now))
        /\ UNCHANGED <<now, replVars, connVars, taskVars>>

XrangeStarts ==
    {<<"-">>, <<"1">>, <<"1", "-", "0">>, <<"1", "-", "1">>, <<"9", "-", "0">>}

XrangeEnds ==
    {<<"+">>, <<"9">>, <<"1", "-", "0">>, <<"1", "-", "1">>, <<"1", "0", "-", "0">>}

XreadIds ==
    {<<"0", "-", "0">>, <<"1", "-", "0">>, <<"9", "-", "0">>, <<"1", "0", "-", "0">>}

\* XRANGE key start end: XrangeCommand.execute
CmdXrange ==
    \E key \in Keys, start \in XrangeStarts, end \in XrangeEnds :
        /\ LET r == xrange(store, key, start, end) IN
               RanRead("XRANGE", key, <<start, end>>, <<r[1], <<r[2]>>>>)
        /\ UNCHANGED <<now, replVars, connVars, taskVars>>

\* XREAD streams key.. id..: XreadCommand.execute, without BLOCK
CmdXread ==
    \E key \in Keys, ids \in {<<a>> : a \in XreadIds}
                              \cup {<<a, b>> : a \in XreadIds, b \in XreadIds} :
        /\ RanRead("XREAD", key, ids,
                   xread(store, [i \in 1..Len(ids) |-> key], ids))
        /\ UNCHANGED <<now, replVars, connVars, taskVars>>

StoreNext == Tick \/ CmdSet \/ CmdGet \/ CmdType \/ CmdXadd

InitStore == StoreInit /\ ServerInit("off")

SpecStore == InitStore /\ [][StoreNext]_vars

\* the streams alone: clients append with XADD and read with XRANGE and XREAD
StreamNext == CmdXadd \/ CmdXrange \/ CmdXread

InitStream == StoreInit /\ now = 1 /\ ServerInit("off")

SpecStream == InitStream /\ [][StreamNext]_vars

---------------------------------------------------------------------------
(* The store's claims *)

\* numeric (ms, seq) order of two stored ids
IdLess(a, b) ==
    \/ StrToInt(a.milliseconds_time) < StrToInt(b.milliseconds_time)
    \/ /\ StrToInt(a.milliseconds_time) = StrToInt(b.milliseconds_time)
       /\ StrToInt(a.seq_no) < StrToInt(b.seq_no)

\* C1: the ids of every stream, read in append order, are strictly
\* increasing in numeric (ms, seq) order, whatever ids the accepted XADDs
\* named and whatever the wall clock showed.
C1_StreamMonotonic ==
    \A k \in Keys :
        \A i \in 1..(Len(store[k].items) - 1) :
            IdLess(store[k].items[i], store[k].items[i + 1])

GetOfTtlKey ==
    /\ last.op = "GET"
    /\ last.pre.kind = "str"
    /\ last.pre.expiry.some

\* C4: a GET strictly after the recorded expiry of a SET .. PX key replies
\* the null bulk and removes the entry; a GET before the expiry replies the
\* value and keeps the entry; TYPE of a removed key replies none, and a
\* removed key stays removed until a SET or an XADD writes it.
C4_TtlExpiry ==
    /\ [](GetOfTtlKey /\ last.at > last.pre.expiry.at
            => /\ last.reply = NULL_BULK_RESP_STRING
               /\ store[last.key] = Absent)
    /\ [](GetOfTtlKey /\ last.at < last.pre.expiry.at
            => /\ last.reply = [t |-> "bulk", s |-> last.pre.value]
               /\ store[last.key] = last.pre)
    /\ [](last.op = "TYPE" /\ last.pre = Absent
            => last.reply = RespSimpleString("none"))
    /\ [][\A k \in Keys :
            store[k] = Absent /\ store'[k] # Absent
                => last'.op \in {"SET", "XADD"} /\ last'.key = k]_vars

\* C4's case: a GET of a key with a TTL, issued after its expiry
C4_Witness ==
    /\ GetOfTtlKey
    /\ last.at > last.pre.expiry.at
    /\ last.reply = NULL_BULK_RESP_STRING

\* C5 as claimed: SET on a key that holds a stream, and XADD on a key that
\* holds a string, are answered with an error and leave the entry unchanged.
C5_OneVariantForLife ==
    /\ last.op = "SET" /\ last.pre.kind = "list"
        => last.reply.t = "err" /\ store[last.key] = last.pre
    /\ last.op = "XADD" /\ last.pre.kind = "str"
        => last.reply.t = "err" /\ store[last.key] = last.pre

\* C5 as amended: XADD on a key that holds a string is answered with an
\* error and leaves the entry unchanged; SET on a key that holds a stream is
\* answered +OK and replaces the stream by the string.
C5_XaddKeepsStringSetReplaces ==
    /\ last.op = "XADD" /\ last.pre.kind = "str"
        => /\ last.reply = RespSimpleError(STREAM_ID_NOT_GREATER_ERROR)
           /\ store[last.key] = last.pre
    /\ last.op = "SET" /\ last.pre.kind = "list"
        => /\ last.reply = OK_SIMPLE_RESP_STRING
           /\ store[last.key].kind = "str"
           /\ store[last.key].value = last.arg

\* C5's case: an XADD was issued on a key that holds a string
C5_Witness ==
    /\ last.op = "XADD"
    /\ last.pre.kind = "str"
    /\ last.reply.t = "err"

\* the numbers of a stream id
MsNo(sid) == StrToInt(sid.milliseconds_time)
SeqNo(sid) == StrToInt(sid.seq_no)

\* C16: XADD with the id 0-0 on a key that is absent or holds a stream is
\* answered with STREAM_ID_TOO_SMALL_ERROR and appends nothing, and no stream
\* holds the id 0-0.
C16_ZeroIdRejected ==
    /\ last.op = "XADD" /\ last.arg = "0-0" /\ last.pre.kind \in {"absent", "list"}
          => /\ last.reply = RespSimpleError(STREAM_ID_TOO_SMALL_ERROR)
             /\ store[last.key] = last.pre
    /\ \A k \in Keys : \A i \in 1..Len(store[k].items) :
          ~(MsNo(store[k].items[i]) = 0 /\ SeqNo(store[k].items[i]) = 0)

\* the id the last XADD named
ArgId == CHOOSE id \in XaddIds : Text(id) = last.arg

\* the last command is an XADD with a fully explicit id on a stream that has
\* entries, and the id is not greater than the stream's last id
XaddNotGreater ==
    /\ last.op = "XADD"
    /\ last.pre.kind = "list"
    /\ last.pre.items # <<>>
    /\ ArgId # Star
    /\ Split(ArgId)[2] # Star
    /\ LET id == StreamIdOf(ArgId)
           top == last.pre.items[Len(last.pre.items)]
       IN  \/ MsNo(id) < MsNo(top)
           \/ MsNo(id) = MsNo(top) /\ SeqNo(id) <= SeqNo(top)

\* C17 as claimed: an XADD with an explicit id that is not greater than the
\* stream's last id is answered with STREAM_ID_NOT_GREATER_ERROR and leaves
\* the stream unchanged.
C17_NotGreaterRejected ==
    XaddNotGreater =>
        /\ last.reply = RespSimpleError(STREAM_ID_NOT_GREATER_ERROR)
        /\ store[last.key] = last.pre

\* C17 as amended: such an XADD leaves the stream unchanged and is answered
\* with STREAM_ID_TOO_SMALL_ERROR when the id is the text 0-0, with
\* STREAM_ID_NOT_GREATER_ERROR otherwise.
C17_NotGreaterOrZeroRejected ==
    XaddNotGreater =>
        /\ last.reply = RespSimpleError(IF last.arg = "0-0"
                                        THEN STREAM_ID_TOO_SMALL_ERROR
                                        ELSE STREAM_ID_NOT_GREATER_ERROR)
        /\ store[last.key] = last.pre

\* C17's case: XADD k 1-1 on a stream whose only entry is 1-1
C17_Witness ==
    /\ XaddNotGreater
    /\ last.arg = "1-1"
    /\ last.pre.items = <<StreamIdOf(<<"1", "-", "1">>)>>
    /\ last.reply = RespSimpleError(STREAM_ID_NOT_GREATER_ERROR)
    /\ Len(store[last.key].items) = 1

\* the last command is an accepted XADD that named an id <ms>-*
XaddSeqStar ==
    /\ last.op = "XADD"
    /\ last.pre.kind \in {"absent", "list"}
    /\ last.reply.t = "str"
    /\ ArgId # Star
    /\ Split(ArgId)[2] = Star

\* the sequence number the rule for <ms>-* gives after the entries items
SeqFor(ms, items) ==
    IF items # <<>> /\ ms = MsNo(items[Len(items)])
    THEN SeqNo(items[Len(items)]) + 1
    ELSE IF ms = 0 THEN 1 ELSE 0

\* C18: an accepted XADD <ms>-* appends ms with the sequence number
\* last_seq + 1 when ms is the number of the last entry's ms, and otherwise
\* (also when the stream has no entry) 1 when ms is 0 and 0 when it is not.
C18_SeqStarGeneration ==
    XaddSeqStar =>
        LET new == store[last.key].items[Len(store[last.key].items)]
            ms == StrToInt(Split(ArgId)[1])
        IN  /\ store[last.key].items = Append(last.pre.items, new)
            /\ MsNo(new) = ms
            /\ SeqNo(new) = SeqFor(ms, last.pre.items)
            /\ last.reply = RespSimpleString(Text(StreamIdStr(new)))

\* a <= b for two stream ids, in the order of the numbers (ms, seq)
IdLeq(a, b) ==
    \/ MsNo(a) < MsNo(b)
    \/ MsNo(a) = MsNo(b) /\ SeqNo(a) <= SeqNo(b)

\* the id sid is not below the bound start of an XRANGE
FromStart(sid, start) ==
    IF start = <<"-">> THEN TRUE
    ELSE IF ~HasDash(start) THEN StrToInt(start) <= MsNo(sid)
    ELSE IdLeq(StreamIdOf(start), sid)

\* the id sid is not above the bound end of an XRANGE
UpToEnd(sid, end) ==
    IF end = <<"+">> THEN TRUE
    ELSE IF ~HasDash(end) THEN MsNo(sid) <= StrToInt(end)
    ELSE IdLeq(sid, StreamIdOf(end))

\* C19: XRANGE key start end on a stream replies, in the stream's order,
\* exactly the entries whose id is from start up to end, both included, in
\* the order of the numbers (ms, seq); the reply is the empty array when
\* there is none.
C19_XrangeInclusive ==
    last.op = "XRANGE" /\ last.pre.kind = "list" =>
        /\ last.reply.t = "arr"
        /\ last.ids = <<SelectSeq(last.pre.items,
                                  LAMBDA e : /\ FromStart(e, last.args[1])
                                             /\ UpToEnd(e, last.args[2]))>>

\* the entries of items whose id is greater than id, in the order of the
\* numbers (ms, seq)
Greater(items, id) == SelectSeq(items, LAMBDA e : ~IdLeq(e, StreamIdOf(id)))

\* C20: XREAD without BLOCK replies, for each (key, id) pair, exactly the
\* entries of the stream whose id is greater than id in the order of the
\* numbers (ms, seq), in the stream's order; when some pair has no such
\* entry the whole reply is the null bulk string.
C20_XreadStrictlyGreater ==
    last.op = "XREAD" /\ last.pre.kind = "list" =>
        IF \E i \in 1..Len(last.args) : Greater(last.pre.items, last.args[i]) = <<>>
        THEN last.reply = NULL_BULK_RESP_STRING
        ELSE /\ last.reply.t = "arr"
             /\ last.ids = [i \in 1..Len(last.args) |->
                                Greater(last.pre.items, last.args[i])]

\* a < b on the pairs of numbers (ms, seq)
NumLt(a, b) ==
    \/ MsNo(a) < MsNo(b)
    \/ MsNo(a) = MsNo(b) /\ SeqNo(a) < SeqNo(b)

\* C31: the order of stream ids, which the searches of XRANGE and XREAD use,
\* is the lexicographic order on the pairs (ms, seq) compared as numbers: for
\* any two ids a and b of a stream, a < b iff a.ms < b.ms, or a.ms = b.ms and
\* a.seq < b.seq.
C31_StreamIdOrder ==
    \A k \in Keys :
        \A i \in 1..Len(store[k].items), j \in 1..Len(store[k].items) :
            StreamIdLt(store[k].items[i], store[k].items[j])
                <=> NumLt(store[k].items[i], store[k].items[j])

\* C24: GET on a key that holds a stream replies the null bulk string, never
\* a rendering of the stream, and leaves the stream unchanged.
C24_GetOfStreamIsNull ==
    last.op = "GET" /\ last.pre.kind = "list" =>
        /\ last.reply = NULL_BULK_RESP_STRING
        /\ store[last.key] = last.pre

---------------------------------------------------------------------------
(* codec.py: parse_cmd and parse_resp_cmd *)

\* bytes.upper() of a command name
Upper(s) ==
    CASE s = "set" -> "SET"
      [] s = "ping" -> "PING"
      [] s = "psync" -> "PSYNC"
      [] s = "replconf" -> "REPLCONF"
      [] s = "getack" -> "GETACK"
      [] s = "ack" -> "ACK"
      [] s = "block" -> "BLOCK"
      [] s = "px" -> "PX"
      [] OTHER -> s

\* the Command class parse_cmd makes of one frame
CmdKind(f) ==
    IF f.t = "str" THEN "FullResyncCommand"
    ELSE IF f.t = "rdb" THEN "RdbFileCommand"
    ELSE IF f.t # "arr" THEN "NoOp"
    ELSE LET cmd_str == Upper(f.a[1]) IN
         CASE cmd_str = "PING" -> "PingCommand"
           [] cmd_str = "SET" -> "SetCommand"
           [] cmd_str = "REPLCONF" ->
                IF Len(f.a) >= 3 /\ Upper(f.a[2]) = "GETACK"
                THEN "ReplConfGetAckCommand"
                ELSE IF Len(f.a) >= 3 /\ Upper(f.a[2]) = "ACK"
                     THEN "ReplConfAckCommand"
                     ELSE "ReplConfCommand"
           [] cmd_str = "WAIT" -> "WaitCommand"
           [] cmd_str = "PSYNC" -> "PsyncCommand"
           [] cmd_str = "GET" -> "GetCommand"
           [] cmd_str = "XADD" -> "XaddCommand"
           [] cmd_str = "XRANGE" -> "XrangeCommand"
           [] cmd_str = "XREAD" -> "XreadCommand"
           [] OTHER -> "RdbFileCommand"

\* parse_cmd raises on frame f: dispatch knows the lead bytes *, $ and +
\* only, and validate_px raises when the fourth element of a SET is not PX
ParseRaises(f) ==
    \/ f.t \notin {"arr", "str", "rdb", "bulk"}
    \/ /\ f.t = "arr"
       /\ Upper(f.a[1]) = "SET"
       /\ Len(f.a) > 3
       /\ Len(f.a) < 5 \/ Upper(f.a[4]) # "PX"

\* len(cmd.raw_cmd) of the command parse_cmd makes of one frame
RawCmdLen(f) ==
    IF f.t = "str" THEN Len(f.a[1])
    ELSE IF f.t = "rdb" THEN EMPTY_RDB_LEN
    ELSE EncLen(f)

\* parse_cmd: the commands of the frames read, each kept with its frame
parse_cmd(data) == data

---------------------------------------------------------------------------
(* commands.py: the replies *)

PONG == Simple("PONG")
OK == Reply(OK_SIMPLE_RESP_STRING)
IP == "localhost"

\* ReplicaHandler.id, str(uuid.uuid4()): some text that is no host name
MasterId == "uuid4"

\* ReplicaHandler.master_replid, assigned in __init__ and nowhere else
master_replid(is_master) == IF is_master THEN MasterId ELSE "?"
PORT == "6380"

\* PsyncCommand.execute's list
PsyncReply(offset) ==
    <<Simple("FULLRESYNC " \o IP \o " " \o Text(IntToStr(offset))), RdbFrame>>

\* ReplConfGetAckCommand.execute's array
AckReply(offset) == Arr(<<"REPLCONF", "ACK", Text(IntToStr(offset))>>)

\* ReplicaHandler.add_slave
add_slave(sl, conn) == Append(sl, conn)

PingFrame == craft_command(<<"PING">>)
PsyncFrame == craft_command(<<"PSYNC", "?", "-1">>)
GetAckFrame == Arr(<<"REPLCONF", "GETACK", "*">>)
UnknownFrame == Arr(<<"DEL", "k">>)
FullResyncLine == PsyncReply(0)[1]

---------------------------------------------------------------------------
(* main.py: handle_conn, one thread for each accepted connection.  A thread *)
(* is at "recv" (in conn.recv), at "exec" (in cmd.execute) or at "send"     *)
(* (in execute_cmd's sendall of what execute returned).                     *)

MaxSets == 2
MaxSlaves == 2

\* the i-th SET a client sends: its value names the client and i
ClientSet(c, i) == SetFrame("k", c \o "." \o Text(IntToStr(i)), -1)

SetsOf(c) == SelectSeq(sets_seen, LAMBDA e : e.conn = c)

\* conn.recv and codec.parse_cmd: the thread has read frame f; an exception
\* of parse_cmd leaves handle_conn, whose with statement closes the socket
ConnRecv(c, f) ==
    /\ conn_pc[c] = "recv"
    /\ conn_cmd' = [conn_cmd EXCEPT ![c] = f]
    /\ conn_idx' = [conn_idx EXCEPT ![c] = 1]
    /\ conn_pc' = [conn_pc EXCEPT ![c] = IF ParseRaises(f) THEN "closed" ELSE "exec"]
    /\ conn_n' = [conn_n EXCEPT ![c] = @ + 1]
    /\ sets_seen' = IF CmdKind(f) = "SetCommand" /\ ~ParseRaises(f)
                    THEN Append(sets_seen, [conn |-> c, f |-> f, regs |-> slaves])
                    ELSE sets_seen
    /\ UNCHANGED <<storeVars, replVars, sock_out, conn_reply, taskVars, waitVars,
                   lock, original_lens, xcall, codecVars>>

Returned(c, executed) ==
    /\ conn_reply' = [conn_reply EXCEPT ![c] = executed]
    /\ conn_pc' = [conn_pc EXCEPT ![c] = IF executed = <<>> THEN "recv" ELSE "send"]

\* PsyncCommand.execute
ConnPsync ==
    \E c \in Conns :
        /\ conn_pc[c] = "exec"
        /\ CmdKind(conn_cmd[c]) = "PsyncCommand"
        /\ slaves' = add_slave(slaves, c)
        /\ connected_slaves' = connected_slaves + 1
        /\ Returned(c, PsyncReply(master_repl_offset))
        /\ UNCHANGED <<storeVars, ack_count, master_repl_offset, sock_out,
                       conn_cmd, conn_idx, sets_seen, taskVars, waitVars, clientVars,
                       codecVars>>

\* the socket of connection s has been closed by its thread
Closed(s) == s \in Conns /\ conn_pc[s] = "closed"

\* one turn of propogate's loop, in SetCommand.execute or
\* ReplConfGetAckCommand.execute: raw_cmd is written to the next slave;
\* sendall on a closed socket raises OSError, which leaves handle_conn
ConnPropogate ==
    \E c \in Conns :
        /\ conn_pc[c] = "exec"
        /\ CmdKind(conn_cmd[c]) \in {"SetCommand", "ReplConfGetAckCommand"}
        /\ conn_idx[c] <= Len(slaves)
        /\ IF Closed(slaves[conn_idx[c]])
           THEN /\ conn_pc' = [conn_pc EXCEPT ![c] = "closed"]
                /\ UNCHANGED <<sock_out, conn_idx>>
           ELSE /\ sock_out' = propogate(sock_out, <<slaves[conn_idx[c]]>>, conn_cmd[c])
                /\ conn_idx' = [conn_idx EXCEPT ![c] = @ + 1]
                /\ UNCHANGED conn_pc
        /\ UNCHANGED <<storeVars, replVars, conn_cmd, conn_reply,
                       sets_seen, taskVars, waitVars, clientVars,
                       codecVars>>

\* SetCommand.execute after propogate: the write to the store
ConnSetStore ==
    \E c \in Conns :
        /\ conn_pc[c] = "exec"
        /\ CmdKind(conn_cmd[c]) = "SetCommand"
        /\ conn_idx[c] > Len(slaves)
        /\ lock \in {"", c}
        /\ store' = SetExecute(store, conn_cmd[c].a[2], conn_cmd[c].a[3], None)[2]
        /\ Returned(c, <<OK>>)
        /\ UNCHANGED <<now, last, replVars, sock_out, conn_cmd, conn_idx,
                       sets_seen, taskVars, waitVars, clientVars,
                       codecVars>>

\* execute_cmd: conn.sendall of the next frame execute returned
ConnSend ==
    \E c \in Conns :
        /\ conn_pc[c] = "send"
        /\ sock_out' = [sock_out EXCEPT ![c] = Append(@, Head(conn_reply[c]))]
        /\ Returned(c, Tail(conn_reply[c]))
        /\ UNCHANGED <<storeVars, replVars, conn_cmd, conn_idx, sets_seen,
                       taskVars, waitVars, clientVars,
                       codecVars>>

---------------------------------------------------------------------------
(* The master: clients send SET, any connection may send PSYNC *)

MasterRecvSet ==
    \E c \in Conns :
        /\ Len(SetsOf(c)) < MaxSets
        /\ ConnRecv(c, ClientSet(c, Len(SetsOf(c)) + 1))

MasterRecvPsync ==
    \E c \in Conns :
        /\ Len(slaves) < MaxSlaves
        /\ ConnRecv(c, PsyncFrame)

MasterNext ==
    \/ MasterRecvSet
    \/ MasterRecvPsync
    \/ ConnPsync
    \/ ConnPropogate
    \/ ConnSetStore
    \/ ConnSend

InitMaster == StoreInit /\ now = 1 /\ ServerInit("off")

SpecMaster == InitMaster /\ [][MasterNext]_vars

---------------------------------------------------------------------------
(* The master's claims *)

Range(q) == {q[i] : i \in 1..Len(q)}

\* the places of frame f in what was written to socket s
Places(s, f) == {i \in 1..Len(sock_out[s]) : sock_out[s][i] = f}

\* the thread that read the SET e has left propogate
Propagated(e) == ~(conn_pc[e.conn] = "exec" /\ conn_cmd[e.conn] = e.f)

\* C2: the raw bytes of every SET read from a client are written to every
\* follower registered at that moment, no follower is written a SET more
\* than once, and the SETs of one client reach a follower in the order sent.
C2_PropagationFidelity ==
    /\ \A x \in 1..Len(sets_seen) :
          Propagated(sets_seen[x]) =>
              \A s \in Range(sets_seen[x].regs) : Places(s, sets_seen[x].f) # {}
    /\ \A x \in 1..Len(sets_seen), s \in Socks :
          Cardinality(Places(s, sets_seen[x].f)) <= 1
    /\ \A x, y \in 1..Len(sets_seen), s \in Socks :
          x < y /\ sets_seen[x].conn = sets_seen[y].conn =>
              \A i \in Places(s, sets_seen[x].f), j \in Places(s, sets_seen[y].f) :
                  i < j

\* C14: PSYNC registers its connection as a follower and is answered with
\* +FULLRESYNC <replid> <offset>, where replid is the master's replication id.
C14_FullResyncCarriesReplid ==
    \A c \in Conns : \A i \in 1..Len(sock_out[c]) :
        sock_out[c][i].t = "str" /\ sock_out[c][i] # OK =>
            /\ c \in Range(slaves)
            /\ sock_out[c][i] =
                   Simple("FULLRESYNC " \o master_replid(TRUE) \o " "
                          \o Text(IntToStr(master_repl_offset)))

RECURSIVE SetBytes(_)
\* the bytes of the raw encodings of the SETs read up to place n
SetBytes(n) == IF n = 0 THEN 0 ELSE EncLen(sets_seen[n].f) + SetBytes(n - 1)

\* C15: on a master, when every SET read has been executed, propagated and
\* answered, master_repl_offset is the number of bytes of these SETs.
C15_MasterOffsetCountsWrites ==
    (\A c \in Conns : conn_pc[c] = "recv") =>
        master_repl_offset = SetBytes(Len(sets_seen))

\* the +OK replies written to client c
OkReplies(c) == Cardinality(Places(c, OK))

\* C11: when the +OK of a SET has been sent to its client, the SET's raw
\* bytes have been written to every follower registered when the SET was read.
C11_ReplyAfterPropagation ==
    \A c \in Conns : \A k \in 1..Len(SetsOf(c)) :
        OkReplies(c) >= k =>
            \A s \in Range(SetsOf(c)[k].regs) : Places(s, SetsOf(c)[k].f) # {}

\* C11's case: a SET read while a follower was registered has been answered
C11_Witness ==
    \E c \in Conns :
        /\ Len(SetsOf(c)) >= 1
        /\ SetsOf(c)[1].regs # <<>>
        /\ OkReplies(c) >= 1

\* the FULLRESYNC line is at place j of socket c and the RDB frame follows it
SyncedAt(c, j) ==
    /\ j + 1 <= Len(sock_out[c])
    /\ sock_out[c][j].t = "str"
    /\ sock_out[c][j] # OK
    /\ sock_out[c][j + 1] = RdbFrame

\* C34: a follower receives no propagated command before its own FULLRESYNC
\* line and RDB frame: on the socket of every registered follower each
\* propagated SET comes after the FULLRESYNC line followed by the RDB frame.
C34_SyncBeforePropagation ==
    \A c \in Range(slaves) :
        \A i \in 1..Len(sock_out[c]) :
            CmdKind(sock_out[c][i]) = "SetCommand" =>
                \E j \in 1..(i - 2) : SyncedAt(c, j)

\* the SETs written to socket s, in the order written
SetsSentTo(s) == SelectSeq(sock_out[s], LAMBDA f : CmdKind(f) = "SetCommand")

\* the followers registered before the first SET was read
EarlyFollowers ==
    {s \in Range(slaves) : \A x \in 1..Len(sets_seen) : s \in Range(sets_seen[x].regs)}

\* every SET read has been executed and answered
SetsCompleted == \A c \in Conns : conn_pc[c] = "recv"

\* C35: SETs issued concurrently by several connections are sent to every
\* follower in the same order, the order in which the master applies them to
\* its store: when all SETs have completed the last value written to the key
\* on every follower is the master's value.
C35_ReplicaConvergence ==
    SetsCompleted =>
        /\ \A s \in EarlyFollowers :
              SetsSentTo(s) # <<>> =>
                  SetsSentTo(s)[Len(SetsSentTo(s))].a[3] = store["k"].value
        /\ \A s \in EarlyFollowers, t \in EarlyFollowers :
              SetsSentTo(s) = SetsSentTo(t)

---------------------------------------------------------------------------
(* commands.py: WaitCommand and ReplConfAckCommand, on the master.  The     *)
(* thread of a WAIT is at "exec" (execute not begun), at "bcast" (in        *)
(* propogate's loop or in the busy wait) or at "return" (out of the busy    *)
(* wait, before the reply is made).                                         *)

MaxWaits == 1
MaxTimeout == 1

\* int() of a decimal text of one digit
IntOf(txt) == CHOOSE n \in 0..9 : Text(IntToStr(n)) = txt

RespInteger(n) == [t |-> "int", a |-> <<Text(IntToStr(n))>>]

WaitFrame(replica_count, timeout) ==
    craft_command(<<"WAIT", Text(IntToStr(replica_count)), Text(IntToStr(timeout))>>)

\* the ACKs executed so far, whoever sent them
AcksExecuted == acks_by["c1"] + acks_by["c2"]

WaitsOf(c) == SelectSeq(wait_log, LAMBDA w : w.conn = c)

\* the place in wait_log of the WAIT thread c is executing
CurrentWait(c) ==
    CHOOSE i \in 1..Len(wait_log) :
        wait_log[i].conn = c /\ \A j \in (i + 1)..Len(wait_log) : wait_log[j].conn # c

\* the busy wait that never looks at the clock
WaitPolling_no_deadline(count, replica_count, t, end) == count < replica_count

\* the condition of WaitCommand.execute's while loop
WaitPolling(count, replica_count, t, end) == count < replica_count /\ t < end

\* a reply that is ack_count even when it is 0
WaitReply_count_only(count, followers) == RespInteger(count)

\* the integer WaitCommand.execute returns
WaitReply(count, followers) == RespInteger(IF count > 0 THEN count ELSE followers)

\* WaitCommand.execute up to propogate: now, end and the reset of ack_count
ConnWaitBegin ==
    \E c \in Conns :
        /\ conn_pc[c] = "exec"
        /\ CmdKind(conn_cmd[c]) = "WaitCommand"
        /\ conn_end' = [conn_end EXCEPT ![c] = now + IntOf(conn_cmd[c].a[3])]
        /\ ack_count' = 0
        /\ conn_pc' = [conn_pc EXCEPT ![c] = "bcast"]
        /\ wait_log' = Append(wait_log,
               [conn |-> c, replica_count |-> IntOf(conn_cmd[c].a[2]),
                end |-> now + IntOf(conn_cmd[c].a[3]), regs |-> slaves,
                acks0 |-> AcksExecuted, acks1 |-> 0, count |-> 0, at |-> 0,
                followers |-> 0, reply |-> RespInteger(0), state |-> "bcast"])
        /\ UNCHANGED <<storeVars, slaves, connected_slaves, master_repl_offset,
                       sock_out, conn_cmd, conn_idx, conn_reply, sets_seen,
                       acks_by, taskVars, clientVars,
                       codecVars>>

\* one turn of propogate's loop in WaitCommand.execute
ConnWaitPropogate ==
    \E c \in Conns :
        /\ conn_pc[c] = "bcast"
        /\ conn_idx[c] <= Len(slaves)
        /\ sock_out' = propogate(sock_out, <<slaves[conn_idx[c]]>>, GetAckFrame)
        /\ conn_idx' = [conn_idx EXCEPT ![c] = @ + 1]
        /\ UNCHANGED <<storeVars, replVars, conn_pc, conn_cmd, conn_reply,
                       sets_seen, waitVars, taskVars, clientVars,
                       codecVars>>

\* the while loop's condition is found false
ConnWaitExit ==
    \E c \in Conns :
        /\ conn_pc[c] = "bcast"
        /\ conn_idx[c] > Len(slaves)
        /\ ~WaitPolling(ack_count, IntOf(conn_cmd[c].a[2]), now, conn_end[c])
        /\ conn_pc' = [conn_pc EXCEPT ![c] = "return"]
        /\ wait_log' = [wait_log EXCEPT ![CurrentWait(c)] =
               [@ EXCEPT !.state = "return", !.count = ack_count, !.at = now]]
        /\ UNCHANGED <<storeVars, replVars, sock_out, conn_cmd, conn_idx,
                       conn_reply, sets_seen, conn_end, acks_by, taskVars, clientVars,
                       codecVars>>

\* WaitCommand.execute's return
ConnWaitReturn ==
    \E c \in Conns :
        /\ conn_pc[c] = "return"
        /\ LET r == WaitReply(ack_count, Len(slaves)) IN
            /\ Returned(c, <<r>>)
            /\ wait_log' = [wait_log EXCEPT ![CurrentWait(c)] =
                   [@ EXCEPT !.state = "done", !.reply = r,
                             !.acks1 = AcksExecuted, !.followers = Len(slaves)]]
        /\ UNCHANGED <<storeVars, replVars, sock_out, conn_cmd, conn_idx,
                       sets_seen, conn_end, acks_by, taskVars, clientVars,
                       codecVars>>

\* ReplConfAckCommand.execute
ConnAck ==
    \E c \in Conns :
        /\ conn_pc[c] = "exec"
        /\ CmdKind(conn_cmd[c]) = "ReplConfAckCommand"
        /\ ack_count' = ack_count + 1
        /\ acks_by' = [acks_by EXCEPT ![c] = @ + 1]
        /\ Returned(c, <<>>)
        /\ UNCHANGED <<storeVars, slaves, connected_slaves, master_repl_offset,
                       sock_out, conn_cmd, conn_idx, sets_seen, conn_end,
                       wait_log, taskVars, clientVars,
                       codecVars>>

---------------------------------------------------------------------------
(* The master with followers: client c1 sends WAITs, the other connection   *)
(* sends PSYNC, and a follower answers each GETACK it is written with one   *)
(* REPLCONF ACK.                                                            *)

Waiters == {"c1"}
WaitCounts == 0..2

WaitRecvWait ==
    \E c \in Waiters, replica_count \in WaitCounts, timeout \in 0..MaxTimeout :
        /\ Len(WaitsOf(c)) < MaxWaits
        /\ ConnRecv(c, WaitFrame(replica_count, timeout))

WaitRecvPsync ==
    \E c \in Conns \ Waiters :
        /\ Len(slaves) < MaxSlaves
        /\ ConnRecv(c, PsyncFrame)

WaitRecvAck ==
    \E c \in Conns :
        /\ acks_by[c] < Cardinality(Places(c, GetAckFrame))
        /\ ConnRecv(c, AckReply(0))

\* the wall clock advances, up to MaxNow or to the deadline of a WAIT
ClockAdvance ==
    /\ now < MaxNow \/ \E c \in Conns : conn_pc[c] = "bcast" /\ now < conn_end[c]
    /\ now' = now + 1
    /\ UNCHANGED <<store, last, replVars, connVars, taskVars>>

WaitThread ==
    \/ ConnWaitBegin
    \/ ConnWaitPropogate
    \/ ConnWaitExit
    \/ ConnWaitReturn
    \/ ConnSend

WaitNext ==
    \/ WaitRecvWait
    \/ WaitRecvPsync
    \/ WaitRecvAck
    \/ ConnPsync
    \/ ConnAck
    \/ ClockAdvance
    \/ WaitThread

InitWait == StoreInit /\ now = 1 /\ ServerInit("off")

SpecWait == InitWait /\ [][WaitNext]_vars

\* the clock advances and a thread that can take a step takes it
SpecWaitFair == SpecWait /\ WF_vars(ClockAdvance) /\ WF_vars(WaitThread)


---------------------------------------------------------------------------
(* WAIT's claims *)

\* the ACKs executed between the reset of WAIT w and its return
AcksDuring(w) == w.acks1 - w.acks0

\* C12: WAIT resets ack_count to 0, writes REPLCONF GETACK * to every
\* follower, leaves its busy wait only when ack_count >= n or the deadline
\* has come, and replies the number of ACKs received since the reset if
\* there was one, otherwise the number of registered followers.
C12_WaitReply ==
    \A i \in 1..Len(wait_log) :
        LET w == wait_log[i] IN
        /\ w.state = "bcast" => ack_count = AcksExecuted - w.acks0
        /\ w.state # "bcast" =>
              /\ w.count >= w.replica_count \/ w.at >= w.end
              /\ \A s \in Range(w.regs) : Places(s, GetAckFrame) # {}
        /\ w.state = "done" =>
              /\ w.reply = RespInteger(IF AcksDuring(w) > 0 THEN AcksDuring(w)
                                                            ELSE w.followers)
              /\ Places(w.conn, w.reply) # {} \/ conn_reply[w.conn] = <<w.reply>>

\* C12's case: WAIT 1 with one registered follower that answered the GETACK
\* with one ACK before the deadline has replied :1
C12_Witness ==
    \E i \in 1..Len(wait_log) :
        /\ wait_log[i].state = "done"
        /\ wait_log[i].replica_count = 1
        /\ Len(wait_log[i].regs) = 1
        /\ wait_log[i].followers = 1
        /\ AcksDuring(wait_log[i]) = 1
        /\ wait_log[i].at < wait_log[i].end
        /\ sock_out[wait_log[i].conn] = <<RespInteger(1)>>

\* thread c has read a WAIT and has not sent its reply
InWait(c) ==
    \/ conn_pc[c] = "exec" /\ CmdKind(conn_cmd[c]) = "WaitCommand"
    \/ conn_pc[c] \in {"bcast", "return"}
    \/ conn_pc[c] = "send" /\ CmdKind(conn_cmd[c]) = "WaitCommand"

\* the WAIT thread c read has been answered with an integer
WaitAnswered(c) ==
    /\ conn_pc[c] = "recv"
    /\ wait_log # <<>>
    /\ wait_log[CurrentWait(c)].state = "done"
    /\ Places(c, wait_log[CurrentWait(c)].reply) # {}

---------------------------------------------------------------------------
(* The master with REPLCONF ACKs that answer no GETACK: client c1 sends    *)
(* WAITs, the other connection sends PSYNC, and every connection may send  *)
(* REPLCONF ACK.                                                           *)

MaxAcks == 2

AcksRecvAck ==
    \E c \in Conns :
        /\ AcksExecuted + Cardinality({d \in Conns : conn_pc[d] = "exec"
                 /\ CmdKind(conn_cmd[d]) = "ReplConfAckCommand"}) < MaxAcks
        /\ ConnRecv(c, AckReply(0))

AcksNext ==
    \/ WaitRecvWait
    \/ WaitRecvPsync
    \/ AcksRecvAck
    \/ ConnPsync
    \/ ConnAck
    \/ ClockAdvance
    \/ WaitThread

SpecAcks == InitWait /\ [][AcksNext]_vars

---------------------------------------------------------------------------
(* The master with WAITs of both connections: each connection sends at     *)
(* most MaxWaits WAITs, c2 may register as the one follower, and a        *)
(* follower answers each GETACK it is written with one REPLCONF ACK.       *)

WaitsRecvWait ==
    \E c \in Conns, replica_count \in WaitCounts, timeout \in 0..MaxTimeout :
        /\ Len(WaitsOf(c)) < MaxWaits
        /\ ConnRecv(c, WaitFrame(replica_count, timeout))

WaitsRecvPsync ==
    \E c \in Conns \ Waiters :
        /\ slaves = <<>>
        /\ ConnRecv(c, PsyncFrame)

WaitsNext ==
    \/ WaitsRecvWait
    \/ WaitsRecvPsync
    \/ WaitRecvAck
    \/ ConnPsync
    \/ ConnAck
    \/ ClockAdvance
    \/ WaitThread

SpecWaits == InitWait /\ [][WaitsNext]_vars

\* C36: WAITs of different connections do not interfere: while a WAIT is in
\* progress ack_count is the number of ACKs executed since that WAIT's own
\* reset, and the WAIT replies that number when it is not 0 (the ACKs being
\* followers' answers to GETACK).
C36_WaitsIndependent ==
    \A i \in 1..Len(wait_log) :
        LET w == wait_log[i] IN
        /\ w.state = "bcast" => ack_count = AcksExecuted - w.acks0
        /\ w.state = "done" /\ AcksDuring(w) > 0 =>
              w.reply = RespInteger(AcksDuring(w))

\* C37: the integer WAIT replies is at most the number of registered
\* followers.
C37_ReplyAtMostFollowers ==
    \A i \in 1..Len(wait_log) :
        wait_log[i].state = "done" =>
            \E n \in 0..wait_log[i].followers : wait_log[i].reply = RespInteger(n)

---------------------------------------------------------------------------
(* commands.py and database.py: XADD, XREAD, GET and XRANGE in a connection *)
(* thread.  Every method of Database runs under Database.lock; a thread is  *)
(* at "xadd" between validate_stream_id and xadd, at "xsleep" in xread's    *)
(* time.sleep(timeout), at "xpoll" in its polling loop, at "xbuild" before  *)
(* its last with block, and at "closed" when an exception has left          *)
(* handle_conn.                                                             *)

MaxCmds == 2

ClientXaddIds == {<<"1", "-", "1">>, <<"2", "-", "0">>}
ClientXreadIds == {<<"$">>, <<"1", "-", "1">>}
Timeouts == {-1, 0, 1}

\* the text of an id as the characters the code splits
Chars(txt) == CHOOSE id \in ClientXaddIds \cup ClientXreadIds : Text(id) = txt

XaddFrame(key, id) == craft_command(<<"XADD", key, Text(id), "f", "v">>)
GetFrame(key) == craft_command(<<"GET", key>>)
XrangeFrame(key) == craft_command(<<"XRANGE", key, "-", "+">>)

\* XREAD [BLOCK timeout] streams key id; timeout -1 is no BLOCK
XreadFrame(timeout, key, id) ==
    IF timeout < 0 THEN craft_command(<<"XREAD", "streams", key, Text(id)>>)
    ELSE craft_command(<<"XREAD", "BLOCK", Text(IntToStr(timeout)), "streams",
                         key, Text(id)>>)

\* a SET whose fourth element is not PX
BadSetFrame == craft_command(<<"SET", "k", "v", "EX", "1">>)

\* bytes that begin with a lead byte dispatch does not know (:1\r\n)
BadLeadFrame == [t |-> "int", a |-> <<"1">>]

\* parse_resp_cmd's keys, ids and timeout of an XREAD (timeout -1 for None)
XreadArgs(f) ==
    LET is_block == Upper(f.a[2]) = "BLOCK"
        key_id_start_idx == IF is_block THEN 4 ELSE 2
        remaining_len == Len(f.a) - key_id_start_idx
    IN  [keys |-> Slice(f.a, key_id_start_idx,
                        key_id_start_idx + remaining_len \div 2),
         ids |-> [i \in 1..(Len(f.a) - key_id_start_idx - remaining_len \div 2) |->
                     Chars(f.a[key_id_start_idx + remaining_len \div 2 + i])],
         timeout |-> IF is_block THEN IntOf(f.a[3]) ELSE -1]

\* len(self.store[stream_key]): the entries of a stream, the two parts of a
\* string's tuple
StoreLen(st, key) == IF st[key].kind = "list" THEN Len(st[key].items) ELSE 2

\* the owner of Database.lock while xread sleeps or polls: the with block
\* that sampled the lengths has been left
SleepLock_held(c) == c

SleepLock(c) == ""

\* the reply of an XREAD or XRANGE as a frame: r is <<the kind of reply, for
\* each stream the entries replied>>
ReadReply(r) ==
    IF r[1] = "null" THEN Reply(NULL_BULK_RESP_STRING)
    ELSE IF r[1] = "raw" THEN [t |-> "raw", a |-> <<XOP_ON_NON_STREAM_ERROR>>]
    ELSE [t |-> "entries",
          a |-> IF r[2] = <<>> THEN <<>>
                ELSE [i \in 1..Len(r[2][1]) |-> Text(StreamIdStr(r[2][1][i]))]]

\* an exception leaves cmd.execute and handle_conn: the socket is closed
Raised(c) == conn_pc' = [conn_pc EXCEPT ![c] = "closed"] /\ UNCHANGED conn_reply

\* XaddCommand.execute up to validate_stream_id
ConnXaddValidate ==
    \E c \in Conns :
        /\ conn_pc[c] = "exec"
        /\ CmdKind(conn_cmd[c]) = "XaddCommand"
        /\ lock \in {"", c}
        /\ LET err == validate_stream_id(store, conn_cmd[c].a[2],
                                         Chars(conn_cmd[c].a[3]))
           IN  IF err # ""
               THEN Returned(c, <<Reply(RespSimpleError(err))>>)
               ELSE /\ conn_pc' = [conn_pc EXCEPT ![c] = "xadd"]
                    /\ UNCHANGED conn_reply
        /\ UNCHANGED <<storeVars, replVars, sock_out, conn_cmd, conn_idx,
                       sets_seen, taskVars, waitVars, clientVars, codecVars>>

\* XaddCommand.execute from db.xadd on
ConnXaddAppend ==
    \E c \in Conns :
        /\ conn_pc[c] = "xadd"
        /\ lock \in {"", c}
        /\ LET r == xadd(store, conn_cmd[c].a[2], Chars(conn_cmd[c].a[3]), now)
           IN  IF r[1] = <<>>
               THEN Raised(c) /\ UNCHANGED store
               ELSE /\ store' = r[2]
                    /\ Returned(c, <<Reply(RespSimpleString(Text(r[1])))>>)
        /\ UNCHANGED <<now, last, replVars, sock_out, conn_cmd, conn_idx,
                       sets_seen, taskVars, waitVars, clientVars, codecVars>>

\* Database.xread with a timeout: the with block that samples original_lens
ConnXreadBegin ==
    \E c \in Conns :
        /\ conn_pc[c] = "exec"
        /\ CmdKind(conn_cmd[c]) = "XreadCommand"
        /\ XreadArgs(conn_cmd[c]).timeout >= 0
        /\ lock \in {"", c}
        /\ LET args == XreadArgs(conn_cmd[c]) IN
           IF \E i \in 1..Len(args.keys) : ~Contains(store, args.keys[i])
           THEN /\ Raised(c)
                /\ xcall' = [xcall EXCEPT ![c] =
                       [NoCall EXCEPT !.state = "raised", !.key = args.keys[1],
                                      !.id = Text(args.ids[1]),
                                      !.timeout = args.timeout,
                                      !.snap = store[args.keys[1]]]]
                /\ UNCHANGED <<original_lens, lock>>
           ELSE /\ original_lens' = [original_lens EXCEPT ![c] =
                       [i \in 1..Len(args.keys) |-> StoreLen(store, args.keys[i])]]
                /\ lock' = SleepLock(c)
                /\ conn_pc' = [conn_pc EXCEPT ![c] =
                       IF args.timeout # 0 THEN "xsleep" ELSE "xpoll"]
                /\ xcall' = [xcall EXCEPT ![c] =
                       [NoCall EXCEPT !.state = "waiting", !.key = args.keys[1],
                                      !.id = Text(args.ids[1]),
                                      !.timeout = args.timeout,
                                      !.snap = store[args.keys[1]]]]
                /\ UNCHANGED conn_reply
        /\ UNCHANGED <<storeVars, replVars, sock_out, conn_cmd, conn_idx,
                       sets_seen, taskVars, waitVars, conn_n, codecVars>>

\* time.sleep(timeout / 1e3) returns
ConnXreadWake ==
    \E c \in Conns :
        /\ conn_pc[c] = "xsleep"
        /\ conn_pc' = [conn_pc EXCEPT ![c] = "xbuild"]
        /\ UNCHANGED <<storeVars, replVars, sock_out, conn_cmd, conn_idx,
                       conn_reply, sets_seen, taskVars, waitVars, clientVars,
                       codecVars>>

\* one turn of the polling loop that finds a length changed and breaks
ConnXreadPoll ==
    \E c \in Conns :
        /\ conn_pc[c] = "xpoll"
        /\ lock \in {"", c}
        /\ LET keys == XreadArgs(conn_cmd[c]).keys IN
           IF \E i \in 1..Len(keys) : ~Contains(store, keys[i])
           THEN /\ Raised(c)
                /\ xcall' = [xcall EXCEPT ![c].state = "raised"]
           ELSE /\ \E i \in 1..Len(keys) :
                      StoreLen(store, keys[i]) # original_lens[c][i]
                /\ conn_pc' = [conn_pc EXCEPT ![c] = "xbuild"]
                /\ UNCHANGED <<conn_reply, xcall>>
        /\ UNCHANGED <<storeVars, replVars, sock_out, conn_cmd, conn_idx,
                       sets_seen, taskVars, waitVars, lock, original_lens,
                       conn_n, codecVars>>

\* Database.xread's last with block: the reply is built
ConnXreadBuild ==
    \E c \in Conns :
        /\ \/ conn_pc[c] = "xbuild"
           \/ /\ conn_pc[c] = "exec"
              /\ CmdKind(conn_cmd[c]) = "XreadCommand"
              /\ XreadArgs(conn_cmd[c]).timeout < 0
        /\ lock \in {"", c}
        /\ LET args == XreadArgs(conn_cmd[c])
               lens == IF conn_pc[c] = "xbuild" THEN original_lens[c] ELSE <<>>
               r == XreadLoop(store, args.keys, args.ids, lens, 1, <<>>)
               call == IF conn_pc[c] = "xbuild" THEN xcall[c]
                       ELSE [NoCall EXCEPT !.key = args.keys[1],
                                           !.id = Text(args.ids[1]),
                                           !.snap = store[args.keys[1]]]
           IN  IF r[1] = "exception"
               THEN /\ Raised(c)
                    /\ xcall' = [xcall EXCEPT ![c] =
                           [call EXCEPT !.state = "raised",
                                        !.seen = store[args.keys[1]]]]
               ELSE /\ Returned(c, <<ReadReply(r)>>)
                    /\ xcall' = [xcall EXCEPT ![c] =
                           [call EXCEPT !.state = "done",
                                        !.seen = store[args.keys[1]],
                                        !.reply = ReadReply(r)]]
        /\ lock' = ""
        /\ UNCHANGED <<storeVars, replVars, sock_out, conn_cmd, conn_idx,
                       sets_seen, taskVars, waitVars, original_lens, conn_n,
                       codecVars>>

\* GetCommand.execute
ConnGet ==
    \E c \in Conns :
        /\ conn_pc[c] = "exec"
        /\ CmdKind(conn_cmd[c]) = "GetCommand"
        /\ lock \in {"", c}
        /\ LET r == GetExecute(store, conn_cmd[c].a[2], now) IN
               /\ store' = r[2]
               /\ Returned(c, <<[t |-> r[1].t, a |-> <<r[1].s>>]>>)
        /\ UNCHANGED <<now, last, replVars, sock_out, conn_cmd, conn_idx,
                       sets_seen, taskVars, waitVars, clientVars, codecVars>>

\* XrangeCommand.execute
ConnXrange ==
    \E c \in Conns :
        /\ conn_pc[c] = "exec"
        /\ CmdKind(conn_cmd[c]) = "XrangeCommand"
        /\ lock \in {"", c}
        /\ LET r == xrange(store, conn_cmd[c].a[2], <<conn_cmd[c].a[3]>>,
                           <<conn_cmd[c].a[4]>>)
           IN  IF r[1] = "exception" THEN Raised(c)
               ELSE Returned(c, <<ReadReply(<<r[1], <<r[2]>>>>)>>)
        /\ UNCHANGED <<storeVars, replVars, sock_out, conn_cmd, conn_idx,
                       sets_seen, taskVars, waitVars, clientVars, codecVars>>

---------------------------------------------------------------------------
(* The master with two clients: each sends up to MaxCmds frames, one at a   *)
(* time, and the threads of the two run interleaved.                        *)

ClientFrames ==
    {XaddFrame("k", id) : id \in ClientXaddIds}
        \cup {XreadFrame(t, "k", id) : t \in Timeouts, id \in ClientXreadIds}
        \cup {GetFrame("k"), XrangeFrame("k"), SetFrame("k", "v", -1),
              BadSetFrame, BadLeadFrame, PsyncFrame}

ClientRecv ==
    \E c \in Conns, f \in ClientFrames :
        /\ conn_n[c] < MaxCmds
        /\ ConnRecv(c, f)

\* the steps of a connection thread between two recv
ClientThread ==
    \/ ConnXaddValidate
    \/ ConnXaddAppend
    \/ ConnXreadBegin
    \/ ConnXreadWake
    \/ ConnXreadPoll
    \/ ConnXreadBuild
    \/ ConnGet
    \/ ConnXrange
    \/ ConnPropogate
    \/ ConnSetStore
    \/ ConnPsync
    \/ ConnSend

ClientNext == ClientRecv \/ ClientThread

InitClients == StoreInit /\ now = 1 /\ ServerInit("off")

SpecClients == InitClients /\ [][ClientNext]_vars

\* A reader and a writer: client c1 sends XREAD BLOCK 0, the other client
\* sends XADD and SET.
Readers == {"c1"}

BlockRecvRead ==
    \E c \in Readers, id \in ClientXreadIds :
        /\ conn_n[c] < MaxCmds
        /\ ConnRecv(c, XreadFrame(0, "k", id))

BlockRecvWrite ==
    \E c \in Conns \ Readers :
        \E f \in {XaddFrame("k", id) : id \in ClientXaddIds}
                    \cup {SetFrame("k", "v", -1)} :
            /\ conn_n[c] <= MaxCmds
            /\ ConnRecv(c, f)

BlockThread ==
    \/ ConnXaddValidate
    \/ ConnXaddAppend
    \/ ConnXreadBegin
    \/ ConnXreadPoll
    \/ ConnXreadBuild
    \/ ConnSetStore
    \/ ConnSend

BlockNext == BlockRecvRead \/ BlockRecvWrite \/ BlockThread

SpecBlock == InitClients /\ [][BlockNext]_vars

\* a thread that can take a step takes it
SpecBlockFair == SpecBlock /\ WF_vars(BlockThread)

---------------------------------------------------------------------------
(* The clients' claims *)

\* a stream of the store as the list of its entries, empty for no key
ItemsOf(entry) == IF entry.kind = "list" THEN entry.items ELSE <<>>

\* the entries appended to the stream of call between its begin and the
\* building of its reply
AppendedSince(call) ==
    SubSeq(ItemsOf(call.seen), Len(ItemsOf(call.snap)) + 1, Len(ItemsOf(call.seen)))

\* the reply that carries exactly the entries items: the null bulk string
\* when there is none
EntriesReply(items) ==
    IF items = <<>> THEN Reply(NULL_BULK_RESP_STRING)
    ELSE [t |-> "entries", a |-> [i \in 1..Len(items) |-> Text(StreamIdStr(items[i]))]]

\* C21: an XREAD that names the id $ for a key that holds no string, with
\* BLOCK or without, does not fail, and replies exactly the entries appended
\* to the stream after the call began (none of those the stream had then),
\* also when the stream had no entry at the time of the call.
C21_DollarIsSnapshot ==
    \A c \in Conns :
        xcall[c].id = "$" /\ xcall[c].snap.kind # "str" =>
            /\ xcall[c].state # "raised"
            /\ xcall[c].state = "done" /\ xcall[c].seen.kind # "str" =>
                   xcall[c].reply = EntriesReply(AppendedSince(xcall[c]))

\* thread c has begun an XREAD BLOCK 0 that has not returned
InBlock0(c) == xcall[c].timeout = 0 /\ xcall[c].state \in {"waiting", "raised"}

\* the stream of the call of thread c has more entries than when it began
GrownSince(c) ==
    IF xcall[c].key \notin Keys THEN FALSE
    ELSE Len(ItemsOf(store[xcall[c].key])) > Len(ItemsOf(xcall[c].snap))

\* C22: an XREAD BLOCK 0 has returned only if its stream had grown since the
\* call began, and once another client's XADD has appended to the stream the
\* call returns.
C22_Block0WaitsForGrowth ==
    /\ [](\A c \in Conns :
            xcall[c].timeout = 0 /\ xcall[c].state = "done" =>
                Len(ItemsOf(xcall[c].seen)) > Len(ItemsOf(xcall[c].snap)))
    /\ \A c \in Conns :
            (InBlock0(c) /\ GrownSince(c)) ~> (xcall[c].state = "done")

\* the XADD replies +id written to the clients
Accepted(id) ==
    {<<c, i>> \in Conns \X (1..MaxCmds) :
        i <= Len(sock_out[c]) /\ sock_out[c][i] = Reply(RespSimpleString(Text(id)))}

\* C23: XADD is atomic: whatever the interleaving of the clients' threads,
\* no explicit id is accepted twice and the ids of every stream are strictly
\* increasing.
C23_XaddAtomic ==
    /\ \A id \in ClientXaddIds : Cardinality(Accepted(id)) <= 1
    /\ \A k \in Keys : \A i \in 1..(Len(store[k].items) - 1) :
          IdLess(store[k].items[i], store[k].items[i + 1])

\* the last frame written to client c, or the frame its thread is about to
\* write
Answer(c) ==
    IF conn_pc[c] = "send" THEN conn_reply[c][1]
    ELSE IF sock_out[c] # <<>> THEN sock_out[c][Len(sock_out[c])]
    ELSE Arr(<<>>)

\* C25: a SET whose fourth element is not PX is answered with an error
\* reply and its connection stays open: the thread goes on to its next recv;
\* the SET is written to no follower and the store is left as it was.
C25_ValidationErrorAnswered ==
    /\ \A c \in Conns :
          conn_cmd[c] = BadSetFrame =>
              /\ conn_pc[c] \in {"send", "recv"}
              /\ Answer(c).t = "err"
    /\ \A s \in Socks : Places(s, BadSetFrame) = {}
    /\ (\A c \in Conns : conn_n[c] = 0 \/ (conn_n[c] = 1 /\ conn_cmd[c] = BadSetFrame))
          => store = [k \in Keys |-> Absent]

\* the connections whose thread an exception has ended, all ended by a frame
\* with an unsupported lead byte
OnlyBadFraming(d) ==
    \A c \in Conns \ {d} : conn_pc[c] = "closed" => conn_cmd[c] = BadLeadFrame

\* the last frame connection d has read is a well-formed SET
RunsSet(d) ==
    IF conn_n[d] = 0 THEN FALSE
    ELSE IF ParseRaises(conn_cmd[d]) THEN FALSE
    ELSE CmdKind(conn_cmd[d]) = "SetCommand"

\* no frame other than one with an unsupported lead byte has been read
OnlyBadLeadRead ==
    \A c \in Conns : conn_n[c] = 0 \/ (conn_n[c] = 1 /\ conn_cmd[c] = BadLeadFrame)

\* C26: a frame with an unsupported lead byte closes the connection it came
\* from and no other: it changes neither the store nor the follower list,
\* and a well-formed SET of another connection is still executed and
\* answered, its connection staying open.
C26_BadFramingIsLocal ==
    /\ \A c \in Conns : conn_cmd[c] = BadLeadFrame => conn_pc[c] = "closed"
    /\ OnlyBadLeadRead => store = [k \in Keys |-> Absent] /\ slaves = <<>>
    /\ \A d \in Conns :
          OnlyBadFraming(d) /\ RunsSet(d) => conn_pc[d] # "closed"

\* C38: a SET is applied and answered although a follower's socket is
\* closed: the thread of a connection whose last frame is a well-formed SET
\* is never ended, and once it is back at recv the SET's value has been
\* written to the store and +OK to the connection.
C38_ClosedFollowerTolerated ==
    \A d \in Conns :
        RunsSet(d) =>
            /\ conn_pc[d] # "closed"
            /\ conn_pc[d] = "recv" =>
                  /\ store[conn_cmd[d].a[2]].kind = "str"
                  /\ Places(d, [t |-> "str", a |-> <<"OK">>]) # {}

\* connection c is inside an XREAD BLOCK, sleeping or between two polls
Waiting(c) == conn_pc[c] \in {"xsleep", "xpoll"}

\* connection d is about to enter a with self.lock block of SET, GET, XADD or
\* XRANGE
StoreOpPending(d) ==
    IF conn_pc[d] = "xadd" THEN TRUE
    ELSE IF conn_pc[d] # "exec" THEN FALSE
    ELSE \/ CmdKind(conn_cmd[d]) \in {"GetCommand", "XaddCommand", "XrangeCommand"}
         \/ CmdKind(conn_cmd[d]) = "SetCommand" /\ conn_idx[d] > Len(slaves)

\* C30: a connection waiting in XREAD BLOCK, asleep for its timeout or
\* between two polls of BLOCK 0, does not hold the store lock: the SET, GET,
\* XADD or XRANGE another connection is about to execute can take its step.
C30_WaitHoldsNoLock ==
    \A c \in Conns :
        Waiting(c) =>
            /\ lock # c
            /\ \A d \in Conns \ {c} :
                  StoreOpPending(d) =>
                      ENABLED (ConnSetStore \/ ConnGet \/ ConnXaddValidate
                                 \/ ConnXaddAppend \/ ConnXrange)

\* C30: while c1 waits in XREAD BLOCK the other connection has completed an
\* XADD or a SET: the key no longer holds what it held when the wait began
C30_Witness ==
    /\ Waiting("c1")
    /\ xcall["c1"].state = "waiting"
    /\ store[xcall["c1"].key] # xcall["c1"].snap
    /\ sock_out["c2"] # <<>>
    /\ lock = ""

---------------------------------------------------------------------------
(* replicas.py: connect_to_master, the replica's task.  rpc is "start"      *)
(* (before PING is sent), "ping_sent", "replconf1_sent", "replconf2_sent"   *)
(* (in the recv after each), "loop" (PSYNC sent, in the while loop) or      *)
(* "done" (returned).                                                       *)

MaxRx == 7
MaxChunk == 2

\* the messages of the handshake, in order
HandshakeSends ==
    <<craft_command(<<"PING">>),
      craft_command(<<"REPLCONF", "listening-port", PORT>>),
      craft_command(<<"REPLCONF", "capa", "psync2">>),
      craft_command(<<"PSYNC", master_replid(FALSE), "-1">>)>>

HandshakeStates == <<"ping_sent", "replconf1_sent", "replconf2_sent", "loop">>

StateNo(pc) == CHOOSE i \in 1..4 : HandshakeStates[i] = pc

\* what the master may answer during the handshake: nothing (the connection
\* is closed), one frame, or two frames read at once
HandshakeData ==
    {<<>>, <<PONG>>, <<OK>>, <<PONG, OK>>, <<OK, OK>>, <<FullResyncLine>>,
     <<ClientSet("m", 1)>>}

\* the frames the master may send after PSYNC; the FULLRESYNC line and the
\* RDB file are sent once
StreamFrames ==
    {FullResyncLine, RdbFrame, ClientSet("m", 1), GetAckFrame, PingFrame,
     PsyncFrame, UnknownFrame}

Received(f) == \E i \in 1..Len(master_rx) : master_rx[i].f = f

Sendable == {f \in StreamFrames : f \in {FullResyncLine, RdbFrame} => ~Received(f)}

Chunks ==
    {<<>>} \cup {<<f>> : f \in Sendable}
           \cup {d \in {<<f, g>> : f \in Sendable, g \in Sendable} :
                    d[1] = d[2] => d[1] \notin {FullResyncLine, RdbFrame}}

\* the record of a frame read from the master: the frame, the position of the
\* task, and handshake_step and master_repl_offset when it was read
Logged(data, at) ==
    [i \in 1..Len(data) |->
        [f |-> data[i], at |-> at, step |-> handshake_step,
         off |-> master_repl_offset]]

\* a handshake that goes on whatever its recv returned
ReplyAccepted_unchecked(pc, data) == TRUE

\* the comparison of the handshake's recv with the reply it expects
ReplyAccepted(pc, data) ==
    CASE pc = "ping_sent" -> data = <<PONG>>
      [] pc = "replconf1_sent" -> data = <<OK>>
      [] pc = "replconf2_sent" -> data = <<OK>>

\* connect and sendall(PING)
ReplicaConnect ==
    /\ rpc = "start"
    /\ sock_out' = [sock_out EXCEPT ![MasterConn] = Append(@, HandshakeSends[1])]
    /\ rpc' = "ping_sent"
    /\ UNCHANGED <<storeVars, replVars, threadVars, handshake_step, cmds, master_rx>>

\* a recv of the handshake, the check of the reply and the next sendall
ReplicaHandshake ==
    \E data \in HandshakeData :
        /\ rpc \in {"ping_sent", "replconf1_sent", "replconf2_sent"}
        /\ master_rx' = master_rx \o Logged(data, rpc)
        /\ IF ReplyAccepted(rpc, data)
           THEN /\ sock_out' = [sock_out EXCEPT ![MasterConn] =
                                    Append(@, HandshakeSends[StateNo(rpc) + 1])]
                /\ rpc' = HandshakeStates[StateNo(rpc) + 1]
           ELSE /\ rpc' = "done"
                /\ UNCHANGED sock_out
        /\ UNCHANGED <<storeVars, replVars, threadVars, handshake_step, cmds>>

\* the while loop's recv and parse_cmd
ReplicaRecv ==
    \E data \in Chunks :
        /\ rpc = "loop"
        /\ cmds = <<>>
        /\ Len(master_rx) + Len(data) <= MaxRx
        /\ Len(data) <= MaxChunk
        /\ IF data = <<>>
           THEN rpc' = "done" /\ UNCHANGED cmds
           ELSE cmds' = parse_cmd(data) /\ UNCHANGED rpc
        /\ UNCHANGED <<storeVars, replVars, connVars, handshake_step, master_rx>>

\* handle_handshake_psync
handle_handshake_psync(step, cmd) ==
    IF step = 0 /\ CmdKind(cmd) = "FullResyncCommand" THEN 1
    ELSE IF step = 1 /\ CmdKind(cmd) = "RdbFileCommand" THEN 2
    ELSE step

\* one turn of the loop over cmds: respond_to_master(cmd, db), then the
\* handshake step or the offset
ReplicaProcess ==
    /\ rpc = "loop"
    /\ cmds # <<>>
    /\ LET cmd == Head(cmds)
           kind == CmdKind(cmd)
           sent == IF kind \in {"SetCommand", "ReplConfGetAckCommand"}
                   THEN propogate(sock_out, slaves, cmd)
                   ELSE sock_out
       IN  /\ store' = IF kind = "SetCommand"
                       THEN SetExecute(store, cmd.a[2], cmd.a[3], None)[2]
                       ELSE store
           /\ slaves' = IF kind = "PsyncCommand"
                        THEN add_slave(slaves, MasterConn)
                        ELSE slaves
           /\ connected_slaves' = IF kind = "PsyncCommand"
                                  THEN connected_slaves + 1
                                  ELSE connected_slaves
           /\ ack_count' = IF kind = "ReplConfAckCommand"
                           THEN ack_count + 1
                           ELSE ack_count
           /\ sock_out' = IF kind = "ReplConfGetAckCommand"
                          THEN [sent EXCEPT ![MasterConn] =
                                    Append(@, AckReply(master_repl_offset))]
                          ELSE sent
           /\ handshake_step' = IF handshake_step # 2
                                THEN handle_handshake_psync(handshake_step, cmd)
                                ELSE handshake_step
           /\ master_repl_offset' = IF handshake_step # 2
                                    THEN master_repl_offset
                                    ELSE master_repl_offset + RawCmdLen(cmd)
           /\ master_rx' = master_rx \o Logged(<<cmd>>, "loop")
           /\ cmds' = Tail(cmds)
    /\ UNCHANGED <<now, last, threadVars, rpc>>

\* a connection the replica has accepted sends PSYNC
ReplicaClientPsync ==
    /\ Len(slaves) < MaxSlaves
    /\ ConnRecv("c1", PsyncFrame)

ReplicaNext ==
    \/ ReplicaConnect
    \/ ReplicaHandshake
    \/ ReplicaRecv
    \/ ReplicaProcess
    \/ ReplicaClientPsync
    \/ ConnPsync
    \/ ConnSend

InitReplica == StoreInit /\ now = 1 /\ ServerInit("start")

SpecReplica == InitReplica /\ [][ReplicaNext]_vars

---------------------------------------------------------------------------
(* the replica's claims *)

Kind(i) == CmdKind(master_rx[i].f)

\* the frames the while loop has processed
InLoop == {i \in 1..Len(master_rx) : master_rx[i].at = "loop"}

\* where the master's RDB frame was read after its FULLRESYNC line
Synced ==
    {j \in InLoop : /\ master_rx[j].f = RdbFrame
                    /\ \E i \in InLoop : i < j /\ master_rx[i].f = FullResyncLine}

RECURSIVE EncodedBytes(_, _)
\* the bytes on the wire of the frames from .. to of the master's stream
EncodedBytes(from, to) ==
    IF from > to THEN 0
    ELSE EncLen(master_rx[to].f) + EncodedBytes(from, to - 1)

\* the bytes of the commands read after the RDB frame and before place n
ConsumedBefore(n) ==
    IF \E j \in Synced : j < n
    THEN EncodedBytes((CHOOSE j \in Synced : j < n) + 1, n - 1)
    ELSE 0

\* C3: offset accounting: master_repl_offset is the number of bytes of the
\* commands read from the master after the FULLRESYNC line and the RDB frame;
\* the bytes of these two are never counted.
C3_OffsetAccounting ==
    Synced # {} => master_repl_offset = ConsumedBefore(Len(master_rx) + 1)

Expected == <<PONG, OK, OK>>

\* C6: the replica's handshake: the first messages on the master connection
\* are PING, REPLCONF listening-port, REPLCONF capa psync2 and PSYNC ? -1 in
\* this order, and each but the first is sent only after the expected reply
\* to the one before it (+PONG, +OK, +OK) has been read.
C6_HandshakeOrdering ==
    /\ \A k \in 1..4 :
          Len(sock_out[MasterConn]) >= k => sock_out[MasterConn][k] = HandshakeSends[k]
    /\ \A k \in 2..4 :
          Len(sock_out[MasterConn]) >= k =>
              /\ Len(master_rx) >= k - 1
              /\ master_rx[k - 1].f = Expected[k - 1]
              /\ master_rx[k - 1].at = HandshakeStates[k - 1]
    /\ rpc \in {"ping_sent", "replconf1_sent", "replconf2_sent"} =>
          Len(sock_out[MasterConn]) = StateNo(rpc)

\* C6: PSYNC has been sent after the three replies
C6_Witness ==
    /\ rpc = "loop"
    /\ Len(sock_out[MasterConn]) >= 4
    /\ sock_out[MasterConn][4] = HandshakeSends[4]
    /\ Len(master_rx) >= 3

\* a frame that fails the validation of the handshake after PSYNC
FailsValidation(i) ==
    \/ master_rx[i].step = 0 /\ master_rx[i].f.t # "str"
    \/ master_rx[i].step = 1 /\ master_rx[i].f.t # "rdb"

\* C7: a failed validation of a handshake state ends the replica's task, and
\* no command is executed against the store before the FULLRESYNC line and
\* the RDB frame have been seen.
C7_HandshakeFailureTerminates ==
    /\ \A i \in 1..Len(master_rx) :
          master_rx[i].at # "loop" /\ <<master_rx[i].f>> # <<Expected[StateNo(master_rx[i].at)]>>
              => rpc = "done"
    /\ \A i \in InLoop :
          FailsValidation(i) => rpc = "done" /\ i = Len(master_rx)
    /\ handshake_step # 2 => \A key \in Keys : store[key] = Absent

\* the commands read from the master and executed
Replicated == {master_rx[i].f : i \in {j \in InLoop : master_rx[j].f.t = "arr"}}

\* C8: no re-propagation: no command the replica reads from its master is
\* written to a connection the replica has accepted.
C8_NoRePropagation ==
    \A c \in Conns : \A i \in 1..Len(sock_out[c]) : sock_out[c][i] \notin Replicated

\* what the replica has written on the master connection after the handshake
AfterHandshake == SubSeq(sock_out[MasterConn], 5, Len(sock_out[MasterConn]))

\* the places of the master's stream that hold a REPLCONF GETACK
GetAcks == {i \in InLoop : Kind(i) = "ReplConfGetAckCommand"}

\* C9: on the master connection only REPLCONF GETACK is answered: the writes
\* after the handshake are REPLCONF ACK arrays, one for each GETACK read.
C9_OnlyGetAckReplies ==
    /\ \A i \in 1..Len(AfterHandshake) : CmdKind(AfterHandshake[i]) = "ReplConfAckCommand"
    /\ Len(AfterHandshake) = Cardinality(GetAcks)

\* the REPLCONF ACK arrays written on the master connection
Acks == SelectSeq(sock_out[MasterConn], LAMBDA f : CmdKind(f) = "ReplConfAckCommand")

\* the place of the k-th GETACK of the master's stream
NthGetAck(k) == CHOOSE i \in GetAcks : Cardinality({j \in GetAcks : j <= i}) = k

\* C10: the offset an ACK carries is the number of bytes of the commands
\* consumed before its GETACK, without the GETACK's own bytes.
C10_AckCarriesConsumedBytes ==
    /\ Len(Acks) = Cardinality(GetAcks)
    /\ \A k \in 1..Len(Acks) :
          (\E j \in Synced : j < NthGetAck(k)) =>
              Acks[k] = AckReply(ConsumedBefore(NthGetAck(k)))


\* the command names parse_resp_cmd compares the first element with
CommandNames ==
    {"PING", "ECHO", "SET", "GET", "COMMAND", "INFO", "REPLCONF", "PSYNC",
     "WAIT", "CONFIG", "KEYS", "TYPE", "XADD", "XRANGE", "XREAD"}

\* an array whose first element is no command name
Unrecognised(f) ==
    IF f.t # "arr" THEN FALSE ELSE Upper(f.a[1]) \notin CommandNames

\* handshake_step after the frame at place i of the master's stream
StepAfter(i) ==
    IF i < Len(master_rx) THEN master_rx[i + 1].step ELSE handshake_step

\* C27: an array whose first element is no command name is parsed as a NoOp,
\* never as the RDB file, and on a replica that has read the FULLRESYNC line
\* it leaves handshake_step at 1.
C27_UnknownIsNoOp ==
    \A i \in InLoop :
        Unrecognised(master_rx[i].f) =>
            /\ CmdKind(master_rx[i].f) = "NoOp"
            /\ master_rx[i].step = 1 => StepAfter(i) = 1


---------------------------------------------------------------------------
(* data_types.py and codec.py on bytes.  Bytes are sequences of one-        *)
(* character strings and positions count from 0, as in the source.  A RESP  *)
(* value is a record: t is "str", "err", "bulk" or "rdb" with its bytes in  *)
(* data, "int" with val, or "arr" with elements.                            *)

CR == "\r"
LF == "\n"
CRLF == <<CR, LF>>

Min(a, b) == IF a < b THEN a ELSE b

\* data[a:b] of bytes for a >= 0 and b >= 0
Bytes(data, a, b) == SubSeq(data, a + 1, Min(b, Len(data)))

RECURSIVE Join(_)
\* b"".join
Join(parts) == IF parts = <<>> THEN <<>> ELSE Head(parts) \o Join(Tail(parts))

\* str(n) of an integer
StrOfInt(n) == IF n < 0 THEN <<"-">> \o IntToStr(0 - n) ELSE IntToStr(n)

IsDigits(s) == s # <<>> /\ \A i \in 1..Len(s) : \E j \in 1..10 : Digits[j] = s[i]

\* int(bytes): the decimal digits with an optional sign; a ValueError raised
\* is ok = FALSE
int(s) ==
    IF s # <<>> /\ s[1] \in {"-", "+"} /\ IsDigits(Tail(s))
    THEN [ok |-> TRUE, n |-> IF s[1] = "-" THEN 0 - StrToInt(Tail(s)) ELSE StrToInt(Tail(s))]
    ELSE IF IsDigits(s) THEN [ok |-> TRUE, n |-> StrToInt(s)]
    ELSE [ok |-> FALSE, n |-> 0]

RespStr(data) == [t |-> "str", data |-> data]
RespErr(data) == [t |-> "err", data |-> data]
RespBulk(data) == [t |-> "bulk", data |-> data]
RespInt(val) == [t |-> "int", val |-> val]
RespArr(elements) == [t |-> "arr", elements |-> elements]

EMPTY_RDB_FILE == <<"EMPTY_RDB_FILE">>

\* rdb.RdbFile(data).data: bytes that do not start with the magic string are
\* replaced by the empty RDB file
RdbFileData(data) ==
    IF Bytes(data, 0, 5) = <<"R", "E", "D", "I", "S">> THEN data ELSE EMPTY_RDB_FILE

RespRdb(data) == [t |-> "rdb", data |-> RdbFileData(data)]

RECURSIVE encode(_)
\* the encode method of each class
encode(v) ==
    CASE v.t = "str" -> <<"+">> \o v.data \o CRLF
      [] v.t = "err" -> <<"-">> \o v.data \o CRLF
      [] v.t = "int" -> <<":">> \o StrOfInt(v.val) \o CRLF
      [] v.t = "bulk" ->
            IF v.data # <<>>
            THEN <<"$">> \o StrOfInt(Len(v.data)) \o CRLF \o v.data \o CRLF
            ELSE <<"$", "-", "1">> \o CRLF
      [] v.t = "arr" ->
            <<"*">> \o StrOfInt(Len(v.elements)) \o CRLF
                \o Join([i \in 1..Len(v.elements) |-> encode(v.elements[i])])

is_sep(data, pos) ==
    /\ pos + 1 < Len(data)
    /\ data[pos + 1] = CR
    /\ data[pos + 2] = LF

RECURSIVE ScanSep(_, _)
\* while pos < len(data) and not is_sep(data, pos): pos += 1
ScanSep(data, pos) ==
    IF pos < Len(data) /\ ~is_sep(data, pos) THEN ScanSep(data, pos + 1) ELSE pos

\* what a decode returns: the value and the new position, or an exception
Decoded(v, pos) == [exc |-> FALSE, v |-> v, pos |-> pos]
Exc == [exc |-> TRUE]

\* RespSimpleString.decode: start is pos itself, so the lead byte is kept
RespSimpleString_decode(data, pos) ==
    LET start == pos
        p == ScanSep(data, pos)
    IN  IF p + 2 <= Len(data)
        THEN Decoded(RespStr(Bytes(data, start, p)), p + 2)
        ELSE Exc

\* RespBulkString.decode
RespBulkString_decode(data, pos) ==
    LET start == pos + 1
        p == ScanSep(data, pos)
        bulk_str_len == int(Bytes(data, start, p))
        q == p + 2
    IN  IF ~bulk_str_len.ok THEN Exc
        ELSE IF q + bulk_str_len.n + 2 <= Len(data)
             THEN Decoded(RespBulk(Bytes(data, q, q + bulk_str_len.n)),
                          q + bulk_str_len.n + 2)
             ELSE Exc

\* RespRdbFile.decode
RespRdbFile_decode(data, pos) ==
    LET start == pos + 1
        p == ScanSep(data, pos)
        bulk_str_len == int(Bytes(data, start, p))
        q == p + 2
    IN  IF ~bulk_str_len.ok THEN Exc
        ELSE IF q + bulk_str_len.n <= Len(data)
             THEN Decoded(RespRdb(Bytes(data, q, q + bulk_str_len.n)),
                          q + bulk_str_len.n)
             ELSE Exc

\* decode_bulk_string_or_rdb: a bulk string when a separator follows the
\* payload, the RDB file otherwise
decode_bulk_string_or_rdb(data, pos) ==
    LET orig == pos
        start == pos + 1
        p == ScanSep(data, pos)
        bulk_str_len == int(Bytes(data, start, p))
    IN  IF ~bulk_str_len.ok THEN Exc
        ELSE IF is_sep(data, p + 2 + bulk_str_len.n)
             THEN RespBulkString_decode(data, orig)
             ELSE RespRdbFile_decode(data, orig)

RECURSIVE dispatch(_, _)
RECURSIVE DecodeElements(_, _, _, _)
\* for _ in range(array_len): element, pos = codec.dispatch(data, pos)
DecodeElements(data, pos, array_len, elements) ==
    IF array_len <= 0 THEN Decoded(RespArr(elements), pos)
    ELSE LET r == dispatch(data, pos) IN
         IF r.exc THEN Exc
         ELSE DecodeElements(data, r.pos, array_len - 1, Append(elements, r.v))

\* RespArray.decode
RespArray_decode(data, pos) ==
    LET start == pos + 1
        p == ScanSep(data, pos)
        array_len == int(Bytes(data, start, p))
    IN  IF ~array_len.ok THEN Exc
        ELSE LET r == DecodeElements(data, p + 2, array_len.n, <<>>) IN
             IF r.exc THEN Exc
             ELSE IF r.pos <= Len(data) THEN r ELSE Exc

\* codec.dispatch: the lead bytes *, $ and + have a decoder, any other raises
dispatch(cmd, pos) ==
    LET data_type == Bytes(cmd, pos, pos + 1) IN
    IF data_type = <<"*">> THEN RespArray_decode(cmd, pos)
    ELSE IF data_type = <<"$">> THEN decode_bulk_string_or_rdb(cmd, pos)
    ELSE IF data_type = <<"+">> THEN RespSimpleString_decode(cmd, pos)
    ELSE Exc


\* the command parse_cmd appends: its class and its raw_cmd
Command(kind, raw_cmd) == [kind |-> kind, raw_cmd |-> raw_cmd]

\* the frame of an array of bulk strings
FrameOf(resp_data) ==
    Arr([i \in 1..Len(resp_data.elements) |-> Text(resp_data.elements[i].data)])

\* codec.parse_resp_cmd: an element that is no bulk string makes a NoOp;
\* resp_elements[0] of an empty array raises IndexError
parse_resp_cmd(resp_data, cmd, start, end) ==
    IF \E i \in 1..Len(resp_data.elements) : resp_data.elements[i].t # "bulk"
    THEN [exc |-> FALSE, c |-> Command("NoOp", Bytes(cmd, start, end))]
    ELSE IF resp_data.elements = <<>> THEN Exc
    ELSE IF ParseRaises(FrameOf(resp_data)) THEN Exc
    ELSE [exc |-> FALSE,
          c |-> Command(CmdKind(FrameOf(resp_data)), Bytes(cmd, start, end))]

RECURSIVE ParseLoop(_, _, _)
\* the while loop of codec.parse_cmd
ParseLoop(cmd, pos, final_cmds) ==
    IF pos >= Len(cmd) THEN [exc |-> FALSE, cmds |-> final_cmds]
    ELSE LET orig == pos
             r == dispatch(cmd, pos)
         IN  IF r.exc THEN Exc
             ELSE IF r.v.t = "arr"
             THEN LET c == parse_resp_cmd(r.v, cmd, orig, r.pos) IN
                  IF c.exc THEN Exc
                  ELSE ParseLoop(cmd, r.pos, Append(final_cmds, c.c))
             ELSE IF r.v.t = "str"
             THEN ParseLoop(cmd, r.pos,
                            Append(final_cmds, Command("FullResyncCommand", r.v.data)))
             ELSE IF r.v.t = "rdb"
             THEN ParseLoop(cmd, r.pos,
                            Append(final_cmds, Command("RdbFileCommand", r.v.data)))
             ELSE ParseLoop(cmd, r.pos,
                            Append(final_cmds, Command("NoOp", Bytes(cmd, orig, r.pos))))

\* codec.parse_cmd on the bytes read from a socket
parse_cmd_bytes(cmd) == ParseLoop(cmd, 0, <<>>)

---------------------------------------------------------------------------
(* The codec alone: values are encoded, and the bytes are handed to         *)
(* dispatch at position 0 or to parse_cmd.                                  *)

MaxElems == 2
MaxFrames == 2

SeqsUpTo(S, n) == UNION {[1..m -> S] : m \in 0..n}

CodecTexts == {<<>>, <<"O", "K">>, <<"a">>, CRLF, Digits}

\* the values that are no array
Scalars ==
    {RespStr(x) : x \in {<<>>, <<"O", "K">>}}
        \cup {RespErr(<<"E", "R", "R">>)}
        \cup {RespInt(n) : n \in {0, 0 - 1, 12}}
        \cup {RespBulk(x) : x \in CodecTexts}

CodecValues ==
    Scalars \cup {RespArr(e) : e \in SeqsUpTo(Scalars, MaxElems)}
            \cup {RespArr(<<RespArr(<<RespBulk(<<"a">>)>>), RespBulk(<<"a">>)>>)}

\* craft_command(*args): the array of the bulk strings of args
CraftBytes(args) == RespArr([i \in 1..Len(args) |-> RespBulk(args[i])])

CodecCommands ==
    {CraftBytes(a) :
        a \in {<<<<"P", "I", "N", "G">>>>,
               <<<<"G", "E", "T">>, <<"k">>>>,
               <<<<"S", "E", "T">>, <<"k">>, <<"v">>>>,
               <<<<"S", "E", "T">>, <<"k">>, <<>>>>,
               <<<<"D", "E", "L">>, <<"k">>>>}}

\* what the codec is handed: one value, or up to MaxFrames commands
CodecInputs ==
    {<<v>> : v \in CodecValues}
        \cup (SeqsUpTo(CodecCommands, MaxFrames) \ {<<>>})

serverVars == <<storeVars, replVars, sock_out, conn_pc, conn_cmd, conn_idx,
                conn_reply, sets_seen, waitVars, clientVars, taskVars>>

\* the bytes of the values: the concatenation of their encodings
CodecEncode ==
    /\ codec_data = <<>>
    /\ codec_data' = Join([i \in 1..Len(codec_v) |-> encode(codec_v[i])])
    /\ UNCHANGED <<serverVars, codec_v, codec_out, rdbVars>>

\* dispatch(data, 0)
CodecDispatch ==
    /\ codec_data # <<>>
    /\ codec_out = <<>>
    /\ codec_out' = <<[op |-> "dispatch", r |-> dispatch(codec_data, 0)]>>
    /\ UNCHANGED <<serverVars, codec_v, codec_data, rdbVars>>

\* parse_cmd(data)
CodecParseCmd ==
    /\ codec_data # <<>>
    /\ codec_out = <<>>
    /\ codec_out' = <<[op |-> "parse_cmd", r |-> parse_cmd_bytes(codec_data)]>>
    /\ UNCHANGED <<serverVars, codec_v, codec_data, rdbVars>>

CodecNext == CodecEncode \/ CodecDispatch \/ CodecParseCmd

InitCodec ==
    /\ StoreInit
    /\ now = 1
    /\ ServerState("off")
    /\ codec_v \in CodecInputs
    /\ codec_data = <<>>
    /\ codec_out = <<>>
    /\ NoRdb

SpecCodec == InitCodec /\ [][CodecNext]_vars

---------------------------------------------------------------------------
(* The codec's claims *)

Dispatched == codec_out # <<>> /\ codec_out[1].op = "dispatch"

\* C28: decoding the encoding of a value from position 0 yields the value and
\* the length of the encoding as the new position, for simple strings, simple
\* errors, integers, bulk strings (the empty one too) and arrays of these.
C28_RoundTrip ==
    Dispatched =>
        /\ ~codec_out[1].r.exc
        /\ codec_out[1].r.v = codec_v[1]
        /\ codec_out[1].r.pos = Len(encode(codec_v[1]))


Parsed == codec_out # <<>> /\ codec_out[1].op = "parse_cmd"

\* the values handed to the codec are commands: arrays of bulk strings
CommandsOnly == \A i \in 1..Len(codec_v) : codec_v[i] \in CodecCommands

\* C29: for the concatenation of the encodings of command arrays parse_cmd
\* returns one command for each frame, in order, and the raw_cmd of each is
\* the bytes of its own frame.
C29_Framing ==
    Parsed /\ CommandsOnly =>
        /\ ~codec_out[1].r.exc
        /\ Len(codec_out[1].r.cmds) = Len(codec_v)
        /\ \A i \in 1..Len(codec_v) :
              codec_out[1].r.cmds[i].raw_cmd = encode(codec_v[i])


---------------------------------------------------------------------------
(* A connection's loop on bytes that arrive in pieces: each conn.recv      *)
(* returns the next bytes that have arrived, and parse_cmd is called on    *)
(* them alone.  codec_out holds one record for each recv.                  *)

MaxReads == 2

\* the number of bytes the recvs have returned
BytesReceived == Len(Join([k \in 1..Len(codec_out) |-> codec_out[k].data]))

\* an exception of parse_cmd has left the loop
LoopLeft ==
    IF codec_out = <<>> THEN FALSE ELSE codec_out[Len(codec_out)].r.exc

\* data = conn.recv(BUFFER_SIZE); cmds = codec.parse_cmd(data)
SplitRecv ==
    /\ codec_data # <<>>
    /\ Len(codec_out) < MaxReads
    /\ ~LoopLeft
    /\ \E n \in 1..(Len(codec_data) - BytesReceived) :
          LET data == Bytes(codec_data, BytesReceived, BytesReceived + n) IN
          codec_out' = Append(codec_out,
              [op |-> "recv", data |-> data, r |-> parse_cmd_bytes(data)])
    /\ UNCHANGED <<serverVars, codec_v, codec_data, rdbVars>>

SplitNext == CodecEncode \/ SplitRecv

InitSplit ==
    /\ StoreInit
    /\ now = 1
    /\ ServerState("off")
    /\ codec_v \in SeqsUpTo(CodecCommands, MaxFrames) \ {<<>>}
    /\ codec_data = <<>>
    /\ codec_out = <<>>
    /\ NoRdb

SpecSplit == InitSplit /\ [][SplitNext]_vars

\* the commands the loop has executed, in order
CmdsExecuted ==
    Join([k \in 1..Len(codec_out) |->
            IF codec_out[k].r.exc THEN <<>> ELSE codec_out[k].r.cmds])

\* the commands of the bytes when one recv returns all of them
Whole == parse_cmd_bytes(codec_data)

\* the offset a replica past its handshake adds for the commands executed
OffsetAdded == Len(Join([i \in 1..Len(CmdsExecuted) |-> CmdsExecuted[i].raw_cmd]))

\* C39: commands whose bytes arrive split across two reads are executed
\* exactly once: no read raises, the commands executed so far are the first
\* of the commands of the whole bytes and lie within the bytes received, and
\* once the last byte has arrived they are all of them, their lengths adding
\* up to the length of the bytes.
C39_SplitExecutedOnce ==
    codec_data # <<>> /\ ~Whole.exc =>
        /\ ~LoopLeft
        /\ Len(CmdsExecuted) <= Len(Whole.cmds)
        /\ CmdsExecuted = SubSeq(Whole.cmds, 1, Len(CmdsExecuted))
        /\ OffsetAdded <= BytesReceived
        /\ BytesReceived = Len(codec_data) =>
              CmdsExecuted = Whole.cmds /\ OffsetAdded = Len(codec_data)

---------------------------------------------------------------------------
(* rdb.py: RdbFile.  Bytes are numbers 0..255; a result carries the new idx  *)
(* and the calls of read_length_encoded_integer made on the way.            *)

\* b"REDIS"
RdbMagic == <<82, 69, 68, 73, 83>>

\* constants.EMPTY_RDB_FILE, the 88 bytes of the base64 text
EMPTY_RDB_BYTES ==
    <<82, 69, 68, 73, 83, 48, 48, 49, 49, 250, 9, 114, 101, 100, 105, 115, 45,
      118, 101, 114, 5, 55, 46, 50, 46, 48, 250, 10, 114, 101, 100, 105, 115,
      45, 98, 105, 116, 115, 192, 64, 250, 5, 99, 116, 105, 109, 101, 194, 109,
      8, 188, 101, 250, 8, 117, 115, 101, 100, 45, 109, 101, 109, 194, 176,
      196, 16, 0, 250, 8, 97, 111, 102, 45, 98, 97, 115, 101, 192, 0, 255, 240,
      110, 59, 254, 192, 255, 90, 162>>

\* RdbFile.read: the bytes and the new idx
read(data, idx, length) ==
    [bytes |-> Bytes(data, idx, idx + length), idx |-> idx + length]

\* int.from_bytes of at most one byte
from_byte(bs) == IF bs = <<>> THEN 0 ELSE bs[1]

RECURSIVE from_bytes(_)
\* int.from_bytes(bs): big-endian
from_bytes(bs) ==
    IF bs = <<>> THEN 0 ELSE 256 * from_bytes(SubSeq(bs, 1, Len(bs) - 1)) + bs[Len(bs)]

RECURSIVE DivTen(_, _)
\* the big-endian number bs divided by 10: <<the quotient, the remainder>>
DivTen(bs, carry) ==
    IF bs = <<>> THEN <<<<>>, carry>>
    ELSE LET cur == carry * 256 + Head(bs)
             rest == DivTen(Tail(bs), cur % 10)
         IN  <<<<cur \div 10>> \o rest[1], rest[2]>>

IsZero(bs) == \A i \in 1..Len(bs) : bs[i] = 0

RECURSIVE DecOf(_)
DecOf(bs) ==
    IF IsZero(bs) THEN <<>>
    ELSE LET d == DivTen(bs, 0) IN DecOf(d[1]) \o <<48 + d[2]>>

\* str(int.from_bytes(bs)).encode(): the ASCII digits
StrOfBytes(bs) == IF IsZero(bs) THEN <<48>> ELSE DecOf(bs)

RECURSIVE Utf8(_)
\* bytes.decode() succeeds: the bytes are UTF-8 (lead bytes E0 and above take
\* their continuation bytes without the checks for overlong forms)
Utf8(bs) ==
    IF bs = <<>> THEN TRUE
    ELSE LET b == bs[1]
             n == IF b < 128 THEN 0
                  ELSE IF b >= 194 /\ b <= 223 THEN 1
                  ELSE IF b >= 224 /\ b <= 239 THEN 2
                  ELSE IF b >= 240 /\ b <= 244 THEN 3
                  ELSE 0 - 1
         IN  /\ n >= 0
             /\ Len(bs) >= 1 + n
             /\ \A i \in 2..(1 + n) : bs[i] >= 128 /\ bs[i] <= 191
             /\ Utf8(SubSeq(bs, 2 + n, Len(bs)))

\* RdbFile.read_length_encoding
read_length_encoding(data, idx) ==
    LET length_encoding == read(data, idx, 1)
        b == from_byte(length_encoding.bytes)
    IN  [le0 |-> b \div 128, le1 |-> (b \div 64) % 2, rest |-> b % 64,
         idx |-> length_encoding.idx]

LengthOf(n, is_int, idx) == [exc |-> FALSE, n |-> n, is_int |-> is_int, idx |-> idx]
LzfRaised(idx) == [exc |-> TRUE, n |-> 0, is_int |-> FALSE, idx |-> idx]

\* the tests of read_length_encoded_integer on le, the result of
\* read_length_encoding; the third test is le0 == 1 and le0 == 0
LengthFrom(data, le) ==
    IF le.le0 = 0 /\ le.le1 = 0 THEN LengthOf(le.rest, FALSE, le.idx)
    ELSE IF le.le0 = 0 /\ le.le1 = 1
    THEN LET next_byte == read(data, le.idx, 1) IN
         LengthOf(le.rest * 256 + from_byte(next_byte.bytes), FALSE, next_byte.idx)
    ELSE IF le.le0 = 1 /\ le.le0 = 0
    THEN LET four == read(data, le.idx, 4) IN
         LengthOf(from_bytes(four.bytes), FALSE, four.idx)
    ELSE IF le.rest = 0 THEN LengthOf(1, TRUE, le.idx)
    ELSE IF le.rest = 1 THEN LengthOf(2, TRUE, le.idx)
    ELSE IF le.rest = 2 THEN LengthOf(4, TRUE, le.idx)
    ELSE IF le.rest = 3 THEN LzfRaised(le.idx)
    ELSE LengthOf(0, FALSE, le.idx)

\* RdbFile.read_length_encoded_integer
read_length_encoded_integer(data, idx) ==
    LengthFrom(data, read_length_encoding(data, idx))

\* the record of the call of read_length_encoded_integer at idx
CallOf(data, idx, r) ==
    [b |-> from_byte(Bytes(data, idx, idx + 1)), at |-> idx, end |-> r.idx,
     n |-> r.n, is_int |-> r.is_int, exc |-> r.exc,
     next4 |-> Bytes(data, idx + 1, idx + 5)]

Call(data, idx) == CallOf(data, idx, read_length_encoded_integer(data, idx))

\* read_length_encoded_string after its call of
\* read_length_encoded_integer, which returned li
StringFrom(data, li) ==
    LET val == read(data, li.idx, li.n)
    IN  IF li.exc THEN [exc |-> TRUE, val |-> <<>>, idx |-> li.idx]
        ELSE [exc |-> FALSE,
              val |-> IF li.is_int THEN StrOfBytes(val.bytes) ELSE val.bytes,
              idx |-> val.idx]

\* RdbFile.read_length_encoded_string
read_length_encoded_string(data, idx) ==
    StringFrom(data, read_length_encoded_integer(data, idx))

\* parse_kv's result for the key and the value read
KvOf(data, idx, val_type, key, value) ==
        IF key.exc
        THEN [exc |-> TRUE, key |-> <<>>, value |-> <<>>, idx |-> key.idx,
              calls |-> <<Call(data, idx)>>]
        ELSE IF val_type # <<0>>
        THEN [exc |-> FALSE, key |-> key.val, value |-> <<>>, idx |-> key.idx,
              calls |-> <<Call(data, idx)>>]
        ELSE [exc |-> value.exc, key |-> key.val, value |-> value.val,
              idx |-> value.idx,
              calls |-> <<Call(data, idx), Call(data, key.idx)>>]

KvFrom(data, idx, val_type, key) ==
    KvOf(data, idx, val_type, key, read_length_encoded_string(data, key.idx))

\* RdbFile.parse_kv
parse_kv(data, idx, val_type) ==
    KvFrom(data, idx, val_type, read_length_encoded_string(data, idx))

\* self.key_values[key] = (value, expiry)
PutKey(key_values, key, value, expiry) ==
    {e \in key_values : e.key # key}
        \cup {[key |-> key, value |-> value, expiry |-> expiry]}

ParseResult(exc, idx, key_values, buffer, calls) ==
    [exc |-> exc, idx |-> idx, key_values |-> key_values, buffer |-> buffer,
     calls |-> calls]

\* key.decode() and value.decode(), then the assignment to key_values
StoreKv(kv, key_values, buffer, expiry) ==
    IF kv.exc \/ ~Utf8(kv.key) \/ ~Utf8(kv.value)
    THEN ParseResult(TRUE, kv.idx, key_values, buffer, kv.calls)
    ELSE ParseResult(FALSE, kv.idx, PutKey(key_values, kv.key, kv.value, expiry),
                 buffer, kv.calls)

\* the largest timestamp in ms that datetime.fromtimestamp(ms / 1e3) takes,
\* 253402300799999, as 8 bytes, most significant first
MaxStampMs == <<0, 0, 230, 119, 210, 31, 219, 255>>

RECURSIVE BytesLeq(_, _)
\* a <= b for two big-endian numbers of the same length
BytesLeq(a, b) ==
    IF a = <<>> THEN TRUE
    ELSE IF a[1] # b[1] THEN a[1] < b[1]
    ELSE BytesLeq(Tail(a), Tail(b))

Reverse(bs) == [i \in 1..Len(bs) |-> bs[Len(bs) + 1 - i]]

Pad(bs, n) == bs \o [i \in 1..(n - Len(bs)) |-> 0]

\* RdbFile.parse: one record of the file
parse(data, idx, key_values, buffer) ==
    LET op_code == read(data, idx, 1) IN
    IF op_code.bytes = <<255>>
    THEN ParseResult(FALSE, Len(data), key_values, buffer, <<>>)
    ELSE IF op_code.bytes = <<254>>
    THEN LET db_selector == read_length_encoded_integer(data, op_code.idx) IN
         ParseResult(db_selector.exc, db_selector.idx, key_values,
                 IF db_selector.exc THEN buffer
                 ELSE Append(buffer, <<"db", db_selector.n>>),
                 <<Call(data, op_code.idx)>>)
    ELSE IF op_code.bytes = <<253>>
    THEN LET expiry == read(data, op_code.idx, 4)
             val_type == read(data, expiry.idx, 1)
         IN  StoreKv(parse_kv(data, val_type.idx, val_type.bytes), key_values,
                     buffer, <<"s", expiry.bytes>>)
    ELSE IF op_code.bytes = <<252>>
    THEN LET expiry == read(data, op_code.idx, 8)
             val_type == read(data, expiry.idx, 1)
         IN  IF ~BytesLeq(Reverse(Pad(expiry.bytes, 8)), MaxStampMs)
             THEN ParseResult(TRUE, expiry.idx, key_values, buffer, <<>>)
             ELSE StoreKv(parse_kv(data, val_type.idx, val_type.bytes),
                          key_values, buffer, <<"ms", expiry.bytes>>)
    ELSE IF op_code.bytes = <<251>>
    THEN LET db_hash_table_size == read_length_encoded_integer(data, op_code.idx)
             expiry_hash_table_size ==
                 read_length_encoded_integer(data, db_hash_table_size.idx)
         IN  IF db_hash_table_size.exc
             THEN ParseResult(TRUE, db_hash_table_size.idx, key_values, buffer,
                          <<Call(data, op_code.idx)>>)
             ELSE ParseResult(expiry_hash_table_size.exc, expiry_hash_table_size.idx,
                          key_values,
                          IF expiry_hash_table_size.exc THEN buffer
                          ELSE Append(buffer, <<"resizedb", db_hash_table_size.n,
                                                expiry_hash_table_size.n>>),
                          <<Call(data, op_code.idx),
                            Call(data, db_hash_table_size.idx)>>)
    ELSE IF op_code.bytes = <<250>>
    THEN LET aux_key == read_length_encoded_string(data, op_code.idx)
             aux_value == read_length_encoded_string(data, aux_key.idx)
         IN  IF aux_key.exc
             THEN ParseResult(TRUE, aux_key.idx, key_values, buffer,
                          <<Call(data, op_code.idx)>>)
             ELSE ParseResult(aux_value.exc, aux_value.idx, key_values,
                          IF aux_value.exc THEN buffer
                          ELSE Append(buffer, <<"aux", aux_key.val, aux_value.val>>),
                          <<Call(data, op_code.idx), Call(data, aux_key.idx)>>)
    ELSE StoreKv(parse_kv(data, op_code.idx, op_code.bytes), key_values, buffer,
                 <<>>)


---------------------------------------------------------------------------
(* The RDB reader alone: RdbFile(data) for the header followed by a few     *)
(* bytes, for some longer files and for data without the magic string.      *)

MaxBody == 3

\* b"REDIS0011"
RdbHeader == RdbMagic \o <<48, 48, 49, 49>>

\* the bytes of the short files: the op codes FF, FE, FB and FA, the value
\* type 0, the lengths 1 and 2, the letter k, and first bytes of a length
\* with the tags 01, 10 and 11
RdbBytes == {0, 1, 2, 107, 64, 128, 131, 192, 195, 250, 251, 254, 255}

\* longer files: a key and a value, keys before a failure, lengths with the
\* tags 01 and 10 followed by the bytes they name
RdbSamples ==
    {<<0, 1, 107, 1, 118, 255>>,
     <<0, 1, 107, 1, 118, 0, 1, 106, 195>>,
     <<0, 1, 107, 1, 118, 0, 1, 128, 1, 118>>,
     <<0, 1, 107, 1, 118, 254, 195>>,
     <<254, 128, 0, 0, 0, 1, 255>>,
     <<0, 128, 0, 0, 0, 1, 107, 1, 118, 255>>,
     <<254, 64, 2, 255>>,
     <<0, 64, 1, 107, 1, 118, 255>>,
     <<0, 1, 107, 1, 118, 0, 1, 107, 1, 119, 255>>}

RdbInputs ==
    {RdbHeader \o body : body \in SeqsUpTo(RdbBytes, MaxBody) \cup RdbSamples}
        \cup {<<>>, <<88>> \o Tail(RdbHeader) \o <<0, 1, 107, 1, 118, 255>>}

\* RdbFile.__init__ up to the magic bytes of read_rdb: data without them is
\* replaced by EMPTY_RDB_FILE and read_rdb is called again
RdbOpen ==
    /\ rdb_pc = "new"
    /\ rdb_data' = IF Bytes(rdb_data, 0, 5) # RdbMagic THEN EMPTY_RDB_BYTES
                   ELSE rdb_data
    /\ rdb_idx' = 9
    /\ rdb_pc' = "parsing"
    /\ UNCHANGED <<serverVars, codec_v, codec_data, codec_out, rdb_input,
                   rdb_key_values, rdb_buffer, rdb_calls>>

\* one turn of read_rdb's loop: self.parse(); an exception leaves read_rdb
\* and __init__
RdbParse ==
    /\ rdb_pc = "parsing"
    /\ rdb_idx < Len(rdb_data)
    /\ LET r == parse(rdb_data, rdb_idx, rdb_key_values, rdb_buffer) IN
       /\ rdb_idx' = r.idx
       /\ rdb_key_values' = r.key_values
       /\ rdb_buffer' = r.buffer
       /\ rdb_calls' = rdb_calls \o r.calls
       /\ rdb_pc' = IF r.exc THEN "raised" ELSE "parsing"
    /\ UNCHANGED <<serverVars, codec_v, codec_data, codec_out, rdb_input, rdb_data>>

\* the loop ends and __init__ returns
RdbReturn ==
    /\ rdb_pc = "parsing"
    /\ rdb_idx >= Len(rdb_data)
    /\ rdb_pc' = "done"
    /\ UNCHANGED <<serverVars, codec_v, codec_data, codec_out, rdb_input,
                   rdb_data, rdb_idx, rdb_key_values, rdb_buffer, rdb_calls>>

RdbNext == RdbOpen \/ RdbParse \/ RdbReturn

InitRdb ==
    /\ StoreInit
    /\ now = 1
    /\ ServerState("off")
    /\ codec_v = <<>>
    /\ codec_data = <<>>
    /\ codec_out = <<>>
    /\ rdb_input \in RdbInputs
    /\ rdb_data = rdb_input
    /\ rdb_idx = 9
    /\ rdb_key_values = {}
    /\ rdb_buffer = <<>>
    /\ rdb_pc = "new"
    /\ rdb_calls = <<>>

SpecRdb == InitRdb /\ [][RdbNext]_vars


---------------------------------------------------------------------------
(* The RDB reader's claims *)

\* str(n).encode() of a number n >= 0
AsciiOf(n) == [i \in 1..Len(IntToStr(n)) |-> 48 + DigitVal(IntToStr(n)[i])]

\* the two bits of a first byte that name the kind of length
Tag(call) == call.b \div 64

\* C32: a length whose first byte b has the tag 00 is b & 0x3F and takes 1
\* byte; with the tag 01 it is ((b & 0x3F) << 8) | next_byte and takes 2
\* bytes; with the tag 10 it is the big-endian number of the next 4 bytes and
\* takes 5 bytes; each is reported as a length, not as an encoded integer.
C32_LengthDecoding ==
    \A i \in 1..Len(rdb_calls) :
        LET call == rdb_calls[i] IN
        /\ Tag(call) = 0 =>
              /\ ~call.exc /\ ~call.is_int
              /\ call.n = call.b % 64
              /\ call.end = call.at + 1
        /\ Tag(call) = 1 =>
              /\ ~call.exc /\ ~call.is_int
              /\ call.n = (call.b % 64) * 256 + from_byte(call.next4)
              /\ call.end = call.at + 2
        /\ Tag(call) = 2 =>
              /\ ~call.exc /\ ~call.is_int
              /\ AsciiOf(call.n) = StrOfBytes(call.next4)
              /\ call.end = call.at + 5


BadMagic == Bytes(rdb_input, 0, 5) # RdbMagic

\* C33: a failure to parse the file, whether the magic bytes are wrong, a
\* string is LZF-compressed or anything else cannot be decoded, is not raised
\* to the caller of RdbFile: the reader ends with the empty RDB file as its
\* data and with no key.
C33_FallbackOnFailure ==
    /\ rdb_pc # "raised"
    /\ rdb_pc = "done" /\ BadMagic =>
          /\ rdb_data = EMPTY_RDB_BYTES
          /\ rdb_key_values = {}

=============================================================================
